---- MODULE Spec2Model ----
(***************************************************************************)
(* CP verification bot: the verification session lifecycle (/link and      *)
(* /verify), the time helpers and the two submission matchers (Codeforces  *)
(* and CodeChef).                                                          *)
(*                                                                         *)
(* Strings whose letter case matters are sequences of one-character        *)
(* strings, so that toUpperCase / toLowerCase / includes are computed.     *)
(* Instants are milliseconds since the epoch; Codeforces submission        *)
(* timestamps are whole seconds.                                           *)
(*                                                                         *)
(* Spec      /link, /verify, the clock and the cleanup job, for every user *)
(* SpecIdem  the same steps for one user, following the remaining times    *)
(*           reported for the first session                                *)
(* SpecMatch one submission check on inputs drawn from bounded sets        *)
(* SpecRetry the steps of Spec for one user, following the failed saves of *)
(*           the first session                                             *)
(* SpecSweep /link, the clock and the cleanup job, with fairness of the    *)
(*           cleanup run                                                   *)
(* SpecGateSeq  the rate-limit gates of the two services under one caller  *)
(* SpecGate     the same under two callers, with the problem catalog       *)
(* SpecCatalog  the problem catalog's cache over hours                     *)
(* SpecWindow   /link under every setting of VERIFICATION_TIMEOUT          *)
(* SpecAdapter  one adapter call against each reply of its judge           *)
(* SpecLink     /link alone, each invocation being followed                *)
(* SpecFilter   the steps of Spec for one user, following the platform     *)
(*              option of each /verify                                     *)
(* SpecRace     two /verify invocations of one user at a time              *)
(* SpecProblemId  /verify of a session whose problem the catalog listed    *)
(* SpecHistory  the Codeforces check against the judge's submission list   *)
(* SpecFloor    the Codeforces check against one stamped submission        *)
(***************************************************************************)
EXTENDS Integers, Sequences, FiniteSets, TLC

VARIABLES
  members,   \* the Discord users who use the bot
  now,       \* the wall clock, ms
  pending,   \* table pending_verifications: a set of rows
  linked,    \* table linked_accounts: a set of rows
  nextId,    \* the id the store gives the next pending_verifications row
  vPc,       \* position of the /verify invocation in flight
  vCtx,      \* its locals: user, guild, sessions still to process, current one
  results,   \* its results array
  reported,  \* per followed session id, the remaining time last shown to the user
  mPc,       \* harness of one call: "ready" or "done" (or what is followed)
  mIn,       \* harness: the inputs of the call
  mOut,      \* harness: what the call returned
  unsaved,   \* per followed session id, whether a save of its account has failed
  cleanupJob,       \* the interval timer of startCleanupJob, and the sessions its
                    \* failed runs have left behind
  lastRequestTime,  \* per backend, the lastRequestTime of its service module
  callers,          \* per caller of the services, the adapter call it is in
  wire,             \* the HTTP requests issued to the judges so far, oldest first
  cfProblemsCache,  \* randomProblem.js: the cached problem list, or null
  cfCacheTimestamp, \* randomProblem.js: when the cache was filled, or null
  pick,             \* the fetchCodeforcesProblems call in flight, then its outcome
  env,              \* process.env.VERIFICATION_TIMEOUT as the process was started
  spellings,        \* the usernames the users type into /link
  vFilter,          \* the platform option of the /verify invocation in flight,
                    \* where it is followed
  suspended,        \* the /verify invocations waiting at an await while the
                    \* one in vPc, vCtx, results runs
  finalizeCalls     \* per followed session id, how often createLinkedAccount has
                    \* stored its account and the role callback was called for it

gateVars == <<lastRequestTime, callers, wire>>
catalogVars == <<cfProblemsCache, cfCacheTimestamp, pick>>
auxVars == <<gateVars, catalogVars, env, vFilter, spellings, suspended, finalizeCalls>>
vars == <<members, now, pending, linked, nextId, vPc, vCtx, results, reported, mPc, mIn, mOut,
          unsaved, cleanupJob, auxVars>>
orchVars == <<members, now, pending, linked, nextId, vPc, vCtx, results, reported,
              unsaved, cleanupJob, env, vFilter, spellings, suspended, finalizeCalls>>
matchVars == <<mPc, mIn, mOut>>

\* ------------------------------------------------------------------ bounds

MaxTicks == 3          \* the clock stops after this many ticks
TickMs == 300000       \* one tick of the clock, ms
MaxLinks == 2          \* /link invocations that reach the store
MaxBatch == 2          \* submissions in one judge response (matcher harness)
MaxOrchBatch == 1      \* submissions in one judge response (inside /verify)
MaxRequests == 3       \* HTTP requests issued to the judges
GateTickMs == 125      \* one tick of the clock while the services are watched, ms
MaxGateTicks == 4      \* the clock stops after this many of them
RandomSteps == 2       \* the values Math.random() takes in one call
MaxLater == 21         \* submissions a user makes after the one that counts
FloorStepMs == 250     \* the grid of instants around a session's start, ms
FloorSteps == 14       \* the last instant of that grid, in steps
MaxFinalizeCalls == 2  \* calls of one finalize step that are counted per session
CatalogTickMs == 1800000  \* one tick of the clock while the catalog is watched, ms
MaxCatalogTicks == 4      \* the clock stops after this many of them

\* ------------------------------------------------------- program constants

MsPerMinute == 60000
MsPerSecond == 1000

NULL == "null"

Backends == { "codeforces", "codechef" }

\* no fetchCodeforcesProblems call has been made
NoPick == [pc |-> "none"]

\* ------------------------------------------------------------------ strings

Alphabet ==
  << <<"a","A">>, <<"b","B">>, <<"c","C">>, <<"d","D">>, <<"e","E">>,
     <<"f","F">>, <<"g","G">>, <<"h","H">>, <<"i","I">>, <<"j","J">>,
     <<"k","K">>, <<"l","L">>, <<"m","M">>, <<"n","N">>, <<"o","O">>,
     <<"p","P">>, <<"q","Q">>, <<"r","R">>, <<"s","S">>, <<"t","T">>,
     <<"u","U">>, <<"v","V">>, <<"w","W">>, <<"x","X">>, <<"y","Y">>,
     <<"z","Z">> >>

DigitChars == <<"0","1","2","3","4","5","6","7","8","9">>

LowerLetters == { Alphabet[i][1] : i \in 1..Len(Alphabet) }
UpperLetters == { Alphabet[i][2] : i \in 1..Len(Alphabet) }
IsLetter(c) == c \in LowerLetters \cup UpperLetters
IsDigit(c) == \E i \in 1..Len(DigitChars) : DigitChars[i] = c

UpperChar(c) ==
  IF c \in LowerLetters
    THEN Alphabet[CHOOSE i \in 1..Len(Alphabet) : Alphabet[i][1] = c][2]
    ELSE c

LowerChar(c) ==
  IF c \in UpperLetters
    THEN Alphabet[CHOOSE i \in 1..Len(Alphabet) : Alphabet[i][2] = c][1]
    ELSE c

toUpperCase(s) == [i \in 1..Len(s) |-> UpperChar(s[i])]
toLowerCase(s) == [i \in 1..Len(s) |-> LowerChar(s[i])]

\* String.prototype.includes
includes(s, t) ==
  \E i \in 0..(Len(s) - Len(t)) : SubSeq(s, i + 1, i + Len(t)) = t

DigitValue(c) == (CHOOSE i \in 1..Len(DigitChars) : DigitChars[i] = c) - 1

RECURSIVE Digits(_)
\* the decimal digits of a natural number, as `${n}` writes them
Digits(n) ==
  IF n < 10 THEN <<DigitChars[n + 1]>>
  ELSE Append(Digits(n \div 10), DigitChars[(n % 10) + 1])

RECURSIVE parseInt(_)
\* parseInt of a non-empty string of digits
parseInt(s) ==
  IF Len(s) = 1 THEN DigitValue(s[1])
  ELSE 10 * parseInt(SubSeq(s, 1, Len(s) - 1)) + DigitValue(s[Len(s)])

\* the settings of VERIFICATION_TIMEOUT a deployment is started with; <<>> is
\* the variable left unset
EnvSettings ==
  { <<>>, <<"1","0">>, <<"3">>, <<"0">>, <<"-","5">>, <<"a","b","c">> }

\* the longest prefix of s made of digits
RECURSIVE LeadingDigits(_)

LeadingDigits(s) ==
  IF s = <<>> \/ ~IsDigit(s[1]) THEN <<>>
  ELSE <<s[1]>> \o LeadingDigits(Tail(s))

\* parseInt of a setting: an optional sign, then the leading digits; <<>>
\* stands for NaN, <<n>> for the number n
parseIntSetting(s) ==
  LET neg == s # <<>> /\ s[1] = "-"
      body == IF s # <<>> /\ s[1] \in { "-", "+" } THEN Tail(s) ELSE s
      digits == LeadingDigits(body)
  IN IF digits = <<>> THEN <<>>
     ELSE <<IF neg THEN 0 - parseInt(digits) ELSE parseInt(digits)>>

\* parseInt(process.env.VERIFICATION_TIMEOUT) || 10: NaN and 0 are falsy
VERIFICATION_TIMEOUT ==
  LET n == parseIntSetting(env) IN
  IF n = <<>> \/ n[1] = 0 THEN 10 ELSE n[1]

\* --------------------------------------------------------------------- time

getExpirationTime(minutes, t) == t + minutes * MsPerMinute

\* isExpired with the comparison the wrong way round
isExpired_inverted(expiresAt, t) == t < expiresAt

isExpired(expiresAt, t) == t > expiresAt

\* getRemainingTime reporting the time elapsed since the window opened
getRemainingTime_elapsed(expiresAt, t) ==
  LET diff == t - (expiresAt - VERIFICATION_TIMEOUT * MsPerMinute) IN
  IF diff <= 0
    THEN [minutes |-> 0, seconds |-> 0, formatted |-> <<"Expired">>]
    ELSE [minutes |-> diff \div MsPerMinute,
          seconds |-> (diff % MsPerMinute) \div MsPerSecond,
          formatted |-> <<diff \div MsPerMinute, "m",
                          (diff % MsPerMinute) \div MsPerSecond, "s">>]

getRemainingTime(expiresAt, t) ==
  LET diff == expiresAt - t IN
  IF diff <= 0
    THEN [minutes |-> 0, seconds |-> 0, formatted |-> <<"Expired">>]
    ELSE [minutes |-> diff \div MsPerMinute,
          seconds |-> (diff % MsPerMinute) \div MsPerSecond,
          formatted |-> <<diff \div MsPerMinute, "m",
                          (diff % MsPerMinute) \div MsPerSecond, "s">>]

\* isSubmissionAfterStart without the comparison
isSubmissionAfterStart_any(submissionTime, startedAt) == TRUE

isSubmissionAfterStart(submissionTime, startedAt) ==
  submissionTime >= startedAt \div MsPerSecond

\* -------------------------------------------------------- Codeforces matcher

CE_VERDICT == "COMPILATION_ERROR"

\* Array.prototype.find, as the index of the first element P holds of (0: none)
FindIndex(s, P(_)) ==
  IF \E i \in 1..Len(s) : P(s[i])
    THEN CHOOSE i \in 1..Len(s) : P(s[i]) /\ \A j \in 1..(i - 1) : ~P(s[j])
    ELSE 0

\* the Codeforces check looking for any submission to the problem before it
\* looks for the compilation error
cfCheck_anyFirst(resp, contestId, problemIndex, startedAt) ==
  LET submissions == resp.submissions
      isProblemMatch(sub) ==
        /\ sub.contestId = contestId
        /\ toUpperCase(sub.problemIndex) = toUpperCase(problemIndex)
      isMatching(sub) ==
        /\ isProblemMatch(sub)
        /\ sub.verdict = CE_VERDICT
        /\ isSubmissionAfterStart(sub.creationTimeSeconds, startedAt)
      isAnyProblemSubmission(sub) ==
        /\ isProblemMatch(sub)
        /\ isSubmissionAfterStart(sub.creationTimeSeconds, startedAt)
      m == FindIndex(submissions, isMatching)
      a == FindIndex(submissions, isAnyProblemSubmission)
  IN
  IF resp.threw
    THEN [threw |-> TRUE, verified |-> FALSE, submission |-> <<>>,
          message |-> <<"error">>]
  ELSE IF a # 0 /\ submissions[a].verdict # CE_VERDICT
    THEN [threw |-> FALSE, verified |-> FALSE, submission |-> <<submissions[a]>>,
          message |-> <<"Found submission but verdict was",
                        submissions[a].verdict>>]
  ELSE IF m # 0
    THEN [threw |-> FALSE, verified |-> TRUE, submission |-> <<submissions[m]>>,
          message |-> <<"Compilation Error submission found!">>]
  ELSE [threw |-> FALSE, verified |-> FALSE, submission |-> <<>>,
        message |-> <<"No submission found to the specified problem">>]

\* resp is what getRecentSubmissions(username, 20) gave: it threw, or the
\* mapped submissions [contestId, problemIndex, verdict, creationTimeSeconds].
\* In the result, submission is <<>> for null and <<sub>> for a submission.
cfCheckCompilationErrorSubmission(resp, contestId, problemIndex, startedAt) ==
  LET submissions == resp.submissions
      isProblemMatch(sub) ==
        /\ sub.contestId = contestId
        /\ toUpperCase(sub.problemIndex) = toUpperCase(problemIndex)
      isMatching(sub) ==
        /\ isProblemMatch(sub)
        /\ sub.verdict = CE_VERDICT
        /\ isSubmissionAfterStart(sub.creationTimeSeconds, startedAt)
      isAnyProblemSubmission(sub) ==
        /\ isProblemMatch(sub)
        /\ isSubmissionAfterStart(sub.creationTimeSeconds, startedAt)
      m == FindIndex(submissions, isMatching)
      a == FindIndex(submissions, isAnyProblemSubmission)
  IN
  IF resp.threw
    THEN [threw |-> TRUE, verified |-> FALSE, submission |-> <<>>,
          message |-> <<"error">>]
  ELSE IF m # 0
    THEN [threw |-> FALSE, verified |-> TRUE, submission |-> <<submissions[m]>>,
          message |-> <<"Compilation Error submission found!">>]
  ELSE IF a # 0
    THEN [threw |-> FALSE, verified |-> FALSE, submission |-> <<submissions[a]>>,
          message |-> <<"Found submission but verdict was",
                        submissions[a].verdict>>]
  ELSE [threw |-> FALSE, verified |-> FALSE, submission |-> <<>>,
        message |-> <<"No submission found to the specified problem">>]

\* ---------------------------------------------------------- CodeChef matcher

Str_compilation_error ==
  <<"c","o","m","p","i","l","a","t","i","o","n"," ","e","r","r","o","r">>
Str_Compilation_Error ==
  <<"C","o","m","p","i","l","a","t","i","o","n"," ","E","r","r","o","r">>
Str_CE_tag == <<">","C","E","<">>
Str_ce == <<"c","e">>

\* the CodeChef check treating an empty list of recent submissions as a
\* failed fetch
ccCheck_emptyThrows(status, recent, username, problemCode, startedAt) ==
  LET hasCompilationError ==
        /\ status.status = 200
        /\ status.data # <<>>
        /\ includes(status.data, username)
        /\ \/ includes(status.data, Str_compilation_error)
           \/ includes(status.data, Str_Compilation_Error)
           \/ includes(status.data, Str_CE_tag)
      isProblemMatch(sub) ==
        /\ sub.problemCode # <<>>
        /\ toUpperCase(sub.problemCode) = toUpperCase(problemCode)
      isCompilationError(sub) ==
        /\ sub.result # <<>>
        /\ \/ includes(toLowerCase(sub.result), Str_compilation_error)
           \/ toLowerCase(sub.result) = Str_ce
           \/ sub.result = Str_compilation_error
      isMatching(sub) == isProblemMatch(sub) /\ isCompilationError(sub)
      m == FindIndex(recent, isMatching)
      a == FindIndex(recent, isProblemMatch)
  IN
  IF status.threw
    THEN [threw |-> TRUE, verified |-> FALSE, submission |-> <<>>,
          message |-> <<"Failed to check CodeChef submissions">>,
          fetched |-> FALSE]
  ELSE IF hasCompilationError
    THEN [threw |-> FALSE, verified |-> TRUE,
          submission |-> <<[problemCode |-> problemCode,
                            result |-> Str_compilation_error]>>,
          message |-> <<"Compilation Error submission found!">>,
          fetched |-> FALSE]
  ELSE IF recent = <<>>
    THEN [threw |-> TRUE, verified |-> FALSE, submission |-> <<>>,
          message |-> <<"Failed to check CodeChef submissions">>,
          fetched |-> TRUE]
  ELSE IF m # 0
    THEN [threw |-> FALSE, verified |-> TRUE, submission |-> <<recent[m]>>,
          message |-> <<"Compilation Error submission found!">>,
          fetched |-> TRUE]
  ELSE IF a # 0
    THEN [threw |-> FALSE, verified |-> FALSE, submission |-> <<recent[a]>>,
          message |-> <<"Found submission but verdict was", recent[a].result>>,
          fetched |-> TRUE]
  ELSE [threw |-> FALSE, verified |-> FALSE, submission |-> <<>>,
        message |-> <<"No submission found to the specified problem">>,
        fetched |-> TRUE]

\* status: the reply to GET /status/<problemCode>?...&status=13&handle=<username>
\*   [threw, status, data]; recent: what getRecentSubmissions(username, 30)
\*   gave, a sequence of [problemCode, result, date] (it never throws: it
\*   returns [] on any error).  startedAt is a parameter the body never reads.
ccCheckCompilationErrorSubmission(status, recent, username, problemCode, startedAt) ==
  LET hasCompilationError ==
        /\ status.status = 200
        /\ status.data # <<>>
        /\ includes(status.data, username)
        /\ \/ includes(status.data, Str_compilation_error)
           \/ includes(status.data, Str_Compilation_Error)
           \/ includes(status.data, Str_CE_tag)
      isProblemMatch(sub) ==
        /\ sub.problemCode # <<>>
        /\ toUpperCase(sub.problemCode) = toUpperCase(problemCode)
      isCompilationError(sub) ==
        /\ sub.result # <<>>
        /\ \/ includes(toLowerCase(sub.result), Str_compilation_error)
           \/ toLowerCase(sub.result) = Str_ce
           \/ sub.result = Str_compilation_error
      isMatching(sub) == isProblemMatch(sub) /\ isCompilationError(sub)
      m == FindIndex(recent, isMatching)
      a == FindIndex(recent, isProblemMatch)
  IN
  IF status.threw
    THEN [threw |-> TRUE, verified |-> FALSE, submission |-> <<>>,
          message |-> <<"Failed to check CodeChef submissions">>,
          fetched |-> FALSE]
  ELSE IF hasCompilationError
    THEN [threw |-> FALSE, verified |-> TRUE,
          submission |-> <<[problemCode |-> problemCode,
                            result |-> Str_compilation_error]>>,
          message |-> <<"Compilation Error submission found!">>,
          fetched |-> FALSE]
  ELSE IF m # 0
    THEN [threw |-> FALSE, verified |-> TRUE, submission |-> <<recent[m]>>,
          message |-> <<"Compilation Error submission found!">>,
          fetched |-> TRUE]
  ELSE IF a # 0
    THEN [threw |-> FALSE, verified |-> FALSE, submission |-> <<recent[a]>>,
          message |-> <<"Found submission but verdict was", recent[a].result>>,
          fetched |-> TRUE]
  ELSE [threw |-> FALSE, verified |-> FALSE, submission |-> <<>>,
        message |-> <<"No submission found to the specified problem">>,
        fetched |-> TRUE]

\* ----------------------------------------------------------- matcher harness
\* One submission check on inputs drawn from bounded sets: the session's
\* problem and startedAt, and what the judge answered.

\* getRecentSubmissions(username, 20): the count the check asks for
SUBMISSIONS_FETCHED == 20

\* the judge's user.status for from and count: the user's submissions are
\* listed newest first, and the reply holds those from position from on, at
\* most count of them
userStatus(history, from, count) ==
  SubSeq(history, from, IF from + count - 1 < Len(history)
                          THEN from + count - 1 ELSE Len(history))

SeqsUpTo(S, n) == UNION { [1..k -> S] : k \in 0..n }

StartInstants == { 2 * MsPerSecond, 2 * MsPerSecond + 500 }

CFContestIds == { 1000, 1001 }
CFIndices == { <<"A">>, <<"a">>, <<"B">> }
CFVerdicts == { CE_VERDICT, "WRONG_ANSWER" }

\* submission timestamps around the second startedAt falls in
SecondsAround(startedAt) ==
  LET s == startedAt \div MsPerSecond IN { s - 1, s, s + 1 }

CFSubmissions(startedAt) ==
  [contestId : CFContestIds, problemIndex : CFIndices, verdict : CFVerdicts,
   creationTimeSeconds : { startedAt \div MsPerSecond - 1,
                           startedAt \div MsPerSecond }]

CFResponses(startedAt, n) ==
  { [threw |-> TRUE, submissions |-> <<>>] } \cup
  { [threw |-> FALSE, submissions |-> b] : b \in SeqsUpTo(CFSubmissions(startedAt), n) }

CFInputs ==
  UNION { { [platform |-> "codeforces", startedAt |-> t, contestId |-> 1000,
             problemIndex |-> <<"A">>, resp |-> r] :
            r \in CFResponses(t, MaxBatch) } : t \in StartInstants }

Str_bob == <<"b","o","b">>
Str_TEST == <<"T","E","S","T">>
Str_INTEST == <<"I","N","T","E","S","T">>
Str_CE == <<"C","E">>
Str_wrong_answer == <<"w","r","o","n","g"," ","a","n","s","w","e","r">>

CCPages ==
  { <<>>,
    Str_bob \o <<" ">> \o Str_compilation_error,
    Str_bob \o <<" ">> \o Str_Compilation_Error,
    Str_bob \o <<" ">> \o toUpperCase(Str_compilation_error),
    Str_bob \o <<" ">> \o Str_CE_tag,
    Str_Compilation_Error,
    Str_bob \o <<" ">> \o Str_wrong_answer }

CCStatusReplies ==
  { [threw |-> TRUE, status |-> 0, data |-> <<>>],
    [threw |-> FALSE, status |-> 404, data |-> <<>>] } \cup
  { [threw |-> FALSE, status |-> 200, data |-> d] : d \in CCPages }

CCSubmissions(startedAt) ==
  [problemCode : { Str_TEST, toLowerCase(Str_TEST), Str_INTEST },
   result : { Str_Compilation_Error, Str_CE, Str_wrong_answer },
   date : { startedAt \div MsPerSecond - 1, startedAt \div MsPerSecond + 1 }]

CCInputs ==
  UNION { { [platform |-> "codechef", startedAt |-> t, username |-> Str_bob,
             problemCode |-> Str_TEST, status |-> st, recent |-> b] :
            st \in CCStatusReplies, b \in SeqsUpTo(CCSubmissions(t), MaxBatch) } :
          t \in { 2 * MsPerSecond } }

MatchCheck(in) ==
  IF in.platform = "codeforces"
    THEN cfCheckCompilationErrorSubmission(in.resp, in.contestId,
                                           in.problemIndex, in.startedAt)
    ELSE ccCheckCompilationErrorSubmission(in.status, in.recent, in.username,
                                           in.problemCode, in.startedAt)


\* ------------------------------------------------------------------ store
\* services/supabase.client.js is not among the sources: the store operations
\* follow the persistence interface the specification describes.

Users == { "u1", "u2" }
Guilds == { "g1" }

\* a plain insert, keeping the older row of the same key
createPendingVerification_insertOnly(rows, v, id, t) ==
  rows \cup { [id |-> id, discord_user_id |-> v.discord_user_id,
               guild_id |-> v.guild_id, platform |-> v.platform,
               username |-> v.username, problem_id |-> v.problem_id,
               started_at |-> t, expires_at |-> v.expires_at] }

\* insert a pending_verifications row, superseding the row of the same
\* (discord_user_id, guild_id, platform); the store stamps id and started_at
createPendingVerification(rows, v, id, t) ==
  { r \in rows : ~(/\ r.discord_user_id = v.discord_user_id
                   /\ r.guild_id = v.guild_id
                   /\ r.platform = v.platform) }
  \cup { [id |-> id, discord_user_id |-> v.discord_user_id,
          guild_id |-> v.guild_id, platform |-> v.platform,
          username |-> v.username, problem_id |-> v.problem_id,
          started_at |-> t, expires_at |-> v.expires_at] }

getPendingVerifications(rows, userId, guildId) ==
  { r \in rows : r.discord_user_id = userId /\ r.guild_id = guildId }

deletePendingVerification(rows, id) == { r \in rows : r.id # id }

\* delete every row whose expires_at is in the past
cleanupExpiredVerifications(rows, t) == { r \in rows : ~(r.expires_at < t) }

\* upsert on (discord_user_id, guild_id, platform, username)
createLinkedAccount(accounts, a) ==
  { x \in accounts : ~(/\ x.discord_user_id = a.discord_user_id
                       /\ x.guild_id = a.guild_id
                       /\ x.platform = a.platform
                       /\ x.username = a.username) }
  \cup { a }

isAccountLinkedByOther(accounts, guildId, platform, username, userId) ==
  \E x \in accounts :
    /\ x.guild_id = guildId
    /\ x.platform = platform
    /\ x.username = username
    /\ x.discord_user_id # userId

\* ------------------------------------------------ the adapters' replies

\* what axios sees of one request: an HTTP response (its status, and the
\* status and comment fields of a JSON body when there is one), a timeout
\* (ECONNABORTED) or no response at all (a network error)
HttpReply(status, apiStatus, comment) ==
  [kind |-> "http", status |-> status, apiStatus |-> apiStatus, comment |-> comment]
TimeoutReply == [kind |-> "timeout", status |-> 0, apiStatus |-> NULL, comment |-> <<>>]
NetworkReply == [kind |-> "network", status |-> 0, apiStatus |-> NULL, comment |-> <<>>]

Str_not_found ==
  <<"n","o","t"," ","f","o","u","n","d">>
Str_User_with_handle ==
  <<"h","a","n","d","l","e","s",":"," ","U","s","e","r"," ","w","i","t","h",
  " ","h","a","n","d","l","e"," ">>
Str_Call_limit ==
  <<"C","a","l","l"," ","l","i","m","i","t"," ","e","x","c","e","e","d","e",
  "d">>
Str_CF_API_error ==
  <<"C","o","d","e","f","o","r","c","e","s"," ","A","P","I"," ","e","r","r",
  "o","r">>
Str_Request_failed ==
  <<"R","e","q","u","e","s","t"," ","f","a","i","l","e","d"," ","w","i","t",
  "h"," ","s","t","a","t","u","s"," ","c","o","d","e"," ">>
Str_CF_timed_out ==
  <<"C","o","d","e","f","o","r","c","e","s"," ","A","P","I"," ","r","e","q",
  "u","e","s","t"," ","t","i","m","e","d"," ","o","u","t">>
Str_ENOTFOUND ==
  <<"g","e","t","a","d","d","r","i","n","f","o"," ","E","N","O","T","F","O",
  "U","N","D"," ","c","o","d","e","f","o","r","c","e","s",".","c","o","m">>
Str_CC_validate_failed ==
  <<"F","a","i","l","e","d"," ","t","o"," ","v","a","l","i","d","a","t","e",
  " ","C","o","d","e","C","h","e","f"," ","u","s","e","r","."," ","P","l",
  "e","a","s","e"," ","t","r","y"," ","a","g","a","i","n"," ","l","a","t",
  "e","r",".">>
Str_CC_user ==
  <<"C","o","d","e","C","h","e","f"," ","u","s","e","r"," ","\"">>
Str_timeout_exceeded ==
  <<"t","i","m","e","o","u","t"," ","o","f"," ","1","5","0","0","0","m","s"," ","e","x","c","e","e","d","e","d">>
Str_quote_not_found == <<"\""," ","n","o","t"," ","f","o","u","n","d">>
Str_CF_user == <<"C","o","d","e","f","o","r","c","e","s"," ","u","s","e","r"," ","\"">>
Str_User == <<"U","s","e","r"," ","\"">>

\* the comment Codeforces gives for a handle it does not know
cfNoSuchUser(username) == Str_User_with_handle \o username \o <<" ">> \o Str_not_found

\* the replies of Codeforces to user.info for a handle
CFReplies(username) ==
  { HttpReply(200, "OK", <<>>),
    HttpReply(400, "FAILED", cfNoSuchUser(username)),
    HttpReply(200, "FAILED", cfNoSuchUser(username)),
    HttpReply(200, "FAILED", <<>>),
    HttpReply(429, "FAILED", Str_Call_limit),
    HttpReply(404, NULL, <<>>),
    HttpReply(503, NULL, <<>>),
    TimeoutReply,
    NetworkReply }

\* the replies of CodeChef to a page or API request
CCReplies ==
  { HttpReply(200, NULL, <<>>),
    HttpReply(404, NULL, <<>>),
    HttpReply(403, NULL, <<>>),
    HttpReply(429, NULL, <<>>),
    HttpReply(503, NULL, <<>>),
    TimeoutReply,
    NetworkReply }

\* the message of the error axios raises for a reply it rejects
axiosMessage(reply) ==
  IF reply.kind = "http" THEN Str_Request_failed \o Digits(reply.status)
  ELSE IF reply.kind = "timeout"
    THEN Str_timeout_exceeded
    ELSE Str_ENOTFOUND

Returned(v) == [threw |-> FALSE, value |-> v]
Threw(message) == [threw |-> TRUE, value |-> message]

\* codeforces.service.js makeRequest, after the gate: the result, or the
\* error it throws
makeRequest(reply) ==
  IF reply.kind = "http" /\ reply.status \in 200..299
    THEN IF reply.apiStatus # "OK"
           THEN Threw(IF reply.comment # <<>> THEN reply.comment
                      ELSE Str_CF_API_error)
           ELSE Returned(<<"u","s","e","r","s">>)
    ELSE IF reply.kind = "http"
      THEN Threw(Str_CF_API_error \o <<":"," ">> \o
                 (IF reply.comment # <<>> THEN reply.comment
                  ELSE axiosMessage(reply)))
      ELSE IF reply.kind = "timeout"
        THEN Threw(Str_CF_timed_out)
        ELSE Threw(axiosMessage(reply))

\* codeforces.service.js validateUser
validateUserCodeforces(reply) ==
  LET r == makeRequest(reply) IN
  IF ~r.threw THEN Returned(TRUE)
  ELSE IF includes(r.value, Str_not_found) THEN Returned(FALSE)
  ELSE r

\* the CodeChef validateUser, after the gate: validateStatus accepts every
\* status below 500
validateUserCodechef(reply) ==
  IF reply.kind = "http" /\ reply.status < 500
    THEN Returned(reply.status = 200)
    ELSE Threw(Str_CC_validate_failed)

\* the accounts the judges know, and what a user may type
CFAccounts == { Str_bob }
CCAccounts == { Str_bob }
TypedNames == { Str_bob, <<"e","v","e">> }

\* the same with another spelling of bob
TypedSpellings == TypedNames \cup { <<"B","o","b">> }

\* ------------------------------------------------------------------- /link

\* Codeforces looks handles up without regard to letter case
cfLookup(username) == { h \in CFAccounts : toLowerCase(h) = toLowerCase(username) }

\* the result of user.info for a handle: the users it names
cfUsers(username) == cfLookup(username)

\* codeforces.service.js getUserInfo: the canonical handle of the profile
getUserInfoCodeforces(username, reply) ==
  LET r == makeRequest(reply)
      inner == IF r.threw THEN r
               ELSE IF cfUsers(username) = {}
                 THEN Threw(Str_User \o username \o Str_quote_not_found)
                 ELSE Returned(CHOOSE h \in cfUsers(username) : TRUE)
  IN IF inner.threw /\ includes(inner.value, Str_not_found)
       THEN Threw(Str_CF_user \o username \o Str_quote_not_found)
       ELSE inner

\* the CodeChef getUserInfo: the ratings request, then on any error that is
\* not "not found" the fallback to validateUser.  requests counts the HTTP
\* requests the call has issued.
getUserInfoCodechef(username, reply, fallback) ==
  LET notFound == Threw(Str_CC_user \o username \o Str_quote_not_found) IN
  IF reply.kind = "http" /\ reply.status < 500
    THEN [result |-> IF reply.status = 404 THEN notFound ELSE Returned(username),
          requests |-> 1]
    ELSE IF includes(axiosMessage(reply), Str_not_found)
      THEN [result |-> Threw(axiosMessage(reply)), requests |-> 1]
      ELSE LET exists == validateUserCodechef(fallback) IN
           [result |-> IF exists.threw THEN exists
                       ELSE IF ~exists.value THEN notFound
                       ELSE Returned(username),
            requests |-> 2]

\* the filtered problem list of the catalog, and the curated CodeChef list
CFProblems == { [contestId |-> 1000, index |-> <<"A">>] }
codechefProblems == { Str_TEST }

\* id: `${problem.contestId}${problem.index}`
cfProblemId(problem) == Digits(problem.contestId) \o problem.index

\* how a call of getRandomCodeforcesProblem ends: it returns a problem of the
\* list, the fetch fails with no cache to fall back on, or the list is empty
getRandomCodeforcesProblem ==
  [outcome : { "picked", "fetch failed", "no problems" }, problem : CFProblems]

\* a handler that clears the caller's session of the platform before it asks
\* the catalog for a problem
handleLinkCodeforces_clearing(u, g, username, net, infoOk, picked) ==
  LET userExists == cfLookup(username) # {}
      handle == IF infoOk THEN CHOOSE h \in cfLookup(username) : TRUE
                ELSE username
      expiresAt == getExpirationTime(VERIFICATION_TIMEOUT, now)
      v == [discord_user_id |-> u, guild_id |-> g,
            platform |-> "codeforces", username |-> handle,
            problem_id |-> cfProblemId(picked.problem),
            expires_at |-> expiresAt]
  IN
  /\ nextId <= MaxLinks
  /\ IF net /\ userExists
        /\ ~isAccountLinkedByOther(linked, g, "codeforces", username, u)
       THEN IF picked.outcome = "picked"
              THEN /\ pending' = createPendingVerification(pending, v, nextId, now)
                   /\ nextId' = nextId + 1
              ELSE /\ pending' = createPendingVerification(pending, v, nextId, now)
                                   \ createPendingVerification({}, v, nextId, now)
                   /\ UNCHANGED nextId
       ELSE UNCHANGED <<pending, nextId>>
  /\ UNCHANGED <<now, linked, vPc, vCtx, results, reported, members,
               unsaved, cleanupJob, auxVars>>

\* net: the judge answered (TRUE) or the request failed (FALSE)
\* infoOk: getUserInfo succeeded;  picked: how the catalog call ended
handleLinkCodeforces(u, g, username, net, infoOk, picked) ==
  LET userExists == cfLookup(username) # {}
      handle == IF infoOk THEN CHOOSE h \in cfLookup(username) : TRUE
                ELSE username
      expiresAt == getExpirationTime(VERIFICATION_TIMEOUT, now)
  IN
  /\ nextId <= MaxLinks
  /\ IF net /\ userExists
        /\ ~isAccountLinkedByOther(linked, g, "codeforces", username, u)
        /\ picked.outcome = "picked"
       THEN /\ pending' = createPendingVerification(pending,
                 [discord_user_id |-> u, guild_id |-> g,
                  platform |-> "codeforces", username |-> handle,
                  problem_id |-> cfProblemId(picked.problem),
                  expires_at |-> expiresAt], nextId, now)
            /\ nextId' = nextId + 1
       ELSE UNCHANGED <<pending, nextId>>
  /\ UNCHANGED <<now, linked, vPc, vCtx, results, reported, members,
               unsaved, cleanupJob, auxVars>>

\* a handler that skips the isAccountLinkedByOther check
handleLinkCodechef_unchecked(u, g, username, net, problem) ==
  LET userExists == username \in CCAccounts
      expiresAt == getExpirationTime(VERIFICATION_TIMEOUT, now)
  IN
  /\ nextId <= MaxLinks
  /\ IF net /\ userExists
       THEN /\ pending' = createPendingVerification(pending,
                 [discord_user_id |-> u, guild_id |-> g,
                  platform |-> "codechef", username |-> username,
                  problem_id |-> problem,
                  expires_at |-> expiresAt], nextId, now)
            /\ nextId' = nextId + 1
       ELSE UNCHANGED <<pending, nextId>>
  /\ UNCHANGED <<now, linked, vPc, vCtx, results, reported, members,
               unsaved, cleanupJob, auxVars>>

handleLinkCodechef(u, g, username, net, problem) ==
  LET userExists == username \in CCAccounts
      expiresAt == getExpirationTime(VERIFICATION_TIMEOUT, now)
  IN
  /\ nextId <= MaxLinks
  /\ IF net /\ userExists
        /\ ~isAccountLinkedByOther(linked, g, "codechef", username, u)
       THEN /\ pending' = createPendingVerification(pending,
                 [discord_user_id |-> u, guild_id |-> g,
                  platform |-> "codechef", username |-> username,
                  problem_id |-> problem,
                  expires_at |-> expiresAt], nextId, now)
            /\ nextId' = nextId + 1
       ELSE UNCHANGED <<pending, nextId>>
  /\ UNCHANGED <<now, linked, vPc, vCtx, results, reported, members,
               unsaved, cleanupJob, auxVars>>

\* where the /link invocations are followed, the last one made
Followed(call) ==
  IF mPc = "following"
    THEN mIn' = call /\ UNCHANGED <<mPc, mOut>>
    ELSE UNCHANGED matchVars

LinkCodeforces ==
  \E u \in members, g \in Guilds, username \in spellings, net \in BOOLEAN,
     infoOk \in BOOLEAN, picked \in getRandomCodeforcesProblem :
    /\ infoOk => (net /\ cfLookup(username) # {})
    /\ handleLinkCodeforces(u, g, username, net, infoOk, picked)
    /\ Followed([platform |-> "codeforces", user |-> u, guild |-> g,
                 username |-> username, net |-> net, infoOk |-> infoOk,
                 catalog |-> picked.outcome])

LinkCodechef ==
  \E u \in members, g \in Guilds, username \in spellings, net \in BOOLEAN,
     problem \in codechefProblems :
    /\ handleLinkCodechef(u, g, username, net, problem)
    /\ Followed([platform |-> "codechef", user |-> u, guild |-> g,
                 username |-> username, net |-> net, infoOk |-> FALSE,
                 catalog |-> "picked"])

\* ----------------------------------------------------------------- /verify

\* parseCodeforcesProblemId: /^(\d+)([A-Za-z]\d*)$/
parseCodeforcesProblemId(problemId) ==
  LET n == Len(problemId)
      k == CHOOSE j \in 0..n :
             /\ \A i \in 1..j : IsDigit(problemId[i])
             /\ j < n => ~IsDigit(problemId[j + 1])
      ok == /\ k >= 1
            /\ k < n
            /\ IsLetter(problemId[k + 1])
            /\ \A i \in (k + 2)..n : IsDigit(problemId[i])
  IN
  IF ok THEN [ok |-> TRUE, contestId |-> parseInt(SubSeq(problemId, 1, k)),
              index |-> toUpperCase(SubSeq(problemId, k + 1, n))]
  ELSE [ok |-> FALSE, contestId |-> 0, index |-> <<>>]

NotAsked == [asked |-> FALSE]

\* the locals of execute: the sessions still to process, the one in hand,
\* when its isExpired was evaluated, what the judge answered to its check
\* (until the code after the await has used it), verificationResult.verified
\* and userRank
IdleCtx == [user |-> NULL, guild |-> NULL, todo |-> <<>>, cur |-> <<>>,
            checkedAt |-> 0, saw |-> NotAsked, verified |-> FALSE,
            rank |-> NULL]

\* one element of the results array.  The code pushes platform, username,
\* success, message and timeRemaining; row (the session the entry is for) is
\* bookkeeping.
Entry(row, success, message, timeRemaining) ==
  [row |-> row, platform |-> row.platform, username |-> row.username,
   success |-> success, message |-> message, timeRemaining |-> timeRemaining]

MsgExpired == <<"Verification expired. Please start a new verification with /link.">>
MsgFailedCheck == <<"Failed to check submissions">>
MsgVerified == <<"Account verified successfully!">>
MsgNotSaved == <<"Verification successful but failed to save">>
MsgNoValid == <<"No valid Compilation Error submission found.">>

RECURSIVE Advance(_, _, _)
\* the head of the for loop, run without suspension at instant t: the
\* expiry check of the next session and, for Codeforces, the parse of its
\* problem id; an id that does not parse is caught and the loop continues
Advance(ctx, res, t) ==
  IF ctx.todo = <<>>
    THEN [pc |-> "reply",
          ctx |-> [ctx EXCEPT !.cur = <<>>, !.saw = NotAsked,
                              !.verified = FALSE, !.rank = NULL],
          results |-> res]
  ELSE
    LET p == Head(ctx.todo)
        c == [ctx EXCEPT !.todo = Tail(ctx.todo), !.cur = <<p>>,
                         !.checkedAt = t, !.saw = NotAsked,
                         !.verified = FALSE, !.rank = NULL]
    IN
    IF isExpired(p.expires_at, t)
      THEN [pc |-> "expired", ctx |-> c, results |-> res]
    ELSE IF p.platform = "codeforces" /\ ~parseCodeforcesProblemId(p.problem_id).ok
      THEN Advance(c, Append(res, Entry(p, FALSE, MsgFailedCheck, <<>>)), t)
    ELSE [pc |-> "check", ctx |-> c, results |-> res]

\* the code after the check testing verificationResult instead of
\* verificationResult.verified
AfterCheck_truthy(ctx, res, out, t) ==
  LET p == ctx.cur[1] IN
  IF out.threw
    THEN Advance(ctx, Append(res, Entry(p, FALSE, MsgFailedCheck, <<>>)), t)
  ELSE [pc |-> IF p.platform = "codeforces" THEN "rank" ELSE "save",
        ctx |-> [ctx EXCEPT !.saw = NotAsked, !.verified = out.verified],
        results |-> res]

\* a catch block that leaves the loop instead of going on to the next session
AfterCheck_breaking(ctx, res, out, t) ==
  LET p == ctx.cur[1] IN
  IF out.threw
    THEN [pc |-> "reply", ctx |-> ctx,
          results |-> Append(res, Entry(p, FALSE, MsgFailedCheck, <<>>))]
  ELSE IF out.verified
    THEN [pc |-> IF p.platform = "codeforces" THEN "rank" ELSE "save",
          ctx |-> [ctx EXCEPT !.saw = NotAsked, !.verified = out.verified],
          results |-> res]
  ELSE Advance(ctx,
         Append(res, Entry(p, FALSE,
                           IF out.message # <<>> THEN out.message ELSE MsgNoValid,
                           getRemainingTime(p.expires_at, t).formatted)), t)

\* what follows the awaited submission check, at instant t
AfterCheck(ctx, res, out, t) ==
  LET p == ctx.cur[1] IN
  IF out.threw
    THEN Advance(ctx, Append(res, Entry(p, FALSE, MsgFailedCheck, <<>>)), t)
  ELSE IF out.verified
    THEN [pc |-> IF p.platform = "codeforces" THEN "rank" ELSE "save",
          ctx |-> [ctx EXCEPT !.saw = NotAsked, !.verified = out.verified],
          results |-> res]
  ELSE Advance(ctx,
         Append(res, Entry(p, FALSE,
                           IF out.message # <<>> THEN out.message ELSE MsgNoValid,
                           getRemainingTime(p.expires_at, t).formatted)), t)

Perms(S) ==
  { f \in [1..Cardinality(S) -> S] : \A i, j \in 1..Cardinality(S) : f[i] = f[j] => i = j }

Platforms == { "codeforces", "codechef" }

\* deferReply, getPendingVerifications, the platform filter and the first
\* pass through the head of the loop (with no session selected: the "no
\* pending verifications" reply)
\* a filter that is never applied
filterByPlatform_ignored(rows, platformFilter) == rows

\* if (platformFilter) pendingVerifications = pendingVerifications.filter(...)
filterByPlatform(rows, platformFilter) ==
  IF platformFilter = NULL THEN rows
  ELSE { v \in rows : v.platform = platformFilter }

\* the platform options are not followed
Unfollowed == "unfollowed"

VerifyStart ==
  \E u \in members, g \in Guilds, platformFilter \in Platforms \cup { NULL } :
    LET rows == getPendingVerifications(pending, u, g)
        sel == filterByPlatform(rows, platformFilter)
    IN
    /\ vPc = "idle"
    /\ \E todo \in Perms(sel) :
         LET a == Advance([IdleCtx EXCEPT !.user = u, !.guild = g, !.todo = todo],
                          <<>>, now)
         IN /\ vPc' = a.pc
            /\ vCtx' = a.ctx
            /\ results' = a.results
    /\ vFilter' = IF vFilter = Unfollowed THEN vFilter ELSE platformFilter
    /\ UNCHANGED <<now, pending, linked, nextId, reported, matchVars, members,
               unsaved, cleanupJob, gateVars, catalogVars, env, spellings,
               suspended, finalizeCalls>>

\* the expiry branch: delete the session, push the Expired result (the
\* store's delete is taken to succeed here)
VerifyExpired ==
  /\ vPc = "expired"
  /\ LET p == vCtx.cur[1]
         a == Advance(vCtx, Append(results, Entry(p, FALSE, MsgExpired, <<>>)), now)
     IN /\ pending' = deletePendingVerification(pending, p.id)
        /\ vPc' = a.pc
        /\ vCtx' = a.ctx
        /\ results' = a.results
  /\ UNCHANGED <<now, linked, nextId, reported, matchVars, members,
               unsaved, cleanupJob, auxVars>>

\* what the judges may answer to the check of session p
OrchCFSubmissions(p) ==
  [contestId : { parseCodeforcesProblemId(p.problem_id).contestId },
   problemIndex : { toLowerCase(parseCodeforcesProblemId(p.problem_id).index) },
   verdict : CFVerdicts,
   creationTimeSeconds : { p.started_at \div MsPerSecond - 1,
                           p.started_at \div MsPerSecond }]

OrchCFResponses(p) ==
  { [platform |-> "codeforces", threw |-> TRUE, submissions |-> <<>>] } \cup
  { [platform |-> "codeforces", threw |-> FALSE, submissions |-> b] :
      b \in SeqsUpTo(OrchCFSubmissions(p), MaxOrchBatch) }

OrchCCStatusReplies(p) ==
  { [threw |-> TRUE, status |-> 0, data |-> <<>>],
    [threw |-> FALSE, status |-> 404, data |-> <<>>],
    [threw |-> FALSE, status |-> 200,
     data |-> p.username \o <<" ">> \o Str_Compilation_Error] }

OrchCCSubmissions(p) ==
  [problemCode : { p.problem_id },
   result : { Str_Compilation_Error, Str_wrong_answer },
   date : { p.started_at \div MsPerSecond }]

\* the recent submissions are fetched only if the status page did not settle
\* the check
OrchCCResponses(p) ==
  UNION { { [platform |-> "codechef", status |-> st, recent |-> b] :
              b \in { r \in SeqsUpTo(OrchCCSubmissions(p), MaxOrchBatch) :
                        r = <<>> \/ (~st.threw /\ st.status # 200) } } :
          st \in OrchCCStatusReplies(p) }

\* what the submission check returns on the judge's answer saw
CheckOn(p, saw) ==
  IF p.platform = "codeforces"
    THEN cfCheckCompilationErrorSubmission(saw,
           parseCodeforcesProblemId(p.problem_id).contestId,
           parseCodeforcesProblemId(p.problem_id).index, p.started_at)
    ELSE ccCheckCompilationErrorSubmission(saw.status, saw.recent, p.username,
                                           p.problem_id, p.started_at)

\* the requests of checkCompilationErrorSubmission are out; the judge answers
VerifyCheckCodeforces ==
  /\ vPc = "check"
  /\ vCtx.cur[1].platform = "codeforces"
  /\ \E resp \in OrchCFResponses(vCtx.cur[1]) :
       vCtx' = [vCtx EXCEPT !.saw = [asked |-> TRUE, resp |-> resp]]
  /\ vPc' = "checked"
  /\ UNCHANGED <<now, pending, linked, nextId, results, reported, matchVars, members,
               unsaved, cleanupJob, auxVars>>

VerifyCheckCodechef ==
  /\ vPc = "check"
  /\ vCtx.cur[1].platform = "codechef"
  /\ \E resp \in OrchCCResponses(vCtx.cur[1]) :
       vCtx' = [vCtx EXCEPT !.saw = [asked |-> TRUE, resp |-> resp]]
  /\ vPc' = "checked"
  /\ UNCHANGED <<now, pending, linked, nextId, results, reported, matchVars, members,
               unsaved, cleanupJob, auxVars>>

\* the code after the await dropping the session whenever the check did not
\* verify it
VerifyChecked_dropping ==
  /\ vPc = "checked"
  /\ LET out == CheckOn(vCtx.cur[1], vCtx.saw.resp)
         a == AfterCheck(vCtx, results, out, now)
     IN /\ vPc' = a.pc
        /\ vCtx' = a.ctx
        /\ results' = a.results
        /\ pending' = IF out.verified /\ ~out.threw THEN pending
                      ELSE deletePendingVerification(pending, vCtx.cur[1].id)
  /\ UNCHANGED <<now, linked, nextId, reported, matchVars, members,
               unsaved, cleanupJob, auxVars>>

\* the code after the await: the check's result, the catch block, or the
\* "verification not complete" branch
VerifyChecked ==
  /\ vPc = "checked"
  /\ LET a == AfterCheck(vCtx, results, CheckOn(vCtx.cur[1], vCtx.saw.resp), now)
     IN /\ vPc' = a.pc
        /\ vCtx' = a.ctx
        /\ results' = a.results
  /\ UNCHANGED <<now, pending, linked, nextId, reported, matchVars, members,
               unsaved, cleanupJob, auxVars>>

\* getUserRank awaited without its own try: its failure lands in the catch
\* block of the submission check
VerifyRank_uncaught ==
  /\ vPc = "rank"
  /\ \E rank \in { "pupil", NULL } :
       IF rank = NULL
         THEN LET a == Advance(vCtx, Append(results,
                         Entry(vCtx.cur[1], FALSE, MsgFailedCheck, <<>>)), now)
              IN /\ vPc' = a.pc
                 /\ vCtx' = a.ctx
                 /\ results' = a.results
         ELSE /\ vCtx' = [vCtx EXCEPT !.rank = rank]
              /\ vPc' = "save"
              /\ UNCHANGED results
  /\ UNCHANGED <<now, pending, linked, nextId, reported, matchVars, members,
               unsaved, cleanupJob, auxVars>>

\* getUserRank after a verified Codeforces check; a failure leaves rank null
VerifyRank ==
  /\ vPc = "rank"
  /\ \E rank \in { "pupil", NULL } :
       vCtx' = [vCtx EXCEPT !.rank = rank]
  /\ vPc' = "save"
  /\ UNCHANGED <<now, pending, linked, nextId, results, reported, matchVars, members,
               unsaved, cleanupJob, auxVars>>

\* the catch block reporting a failed finalize step with the message of an
\* unfinished verification
NotSaved_asNotYet ==
  LET p == vCtx.cur[1]
      a == Advance(vCtx, Append(results, Entry(p, FALSE, MsgNoValid,
                     getRemainingTime(p.expires_at, now).formatted)), now)
  IN /\ vPc' = a.pc
     /\ vCtx' = a.ctx
     /\ results' = a.results

\* a failed finalize step: the catch block pushes the "not saved" result
NotSaved ==
  LET p == vCtx.cur[1]
      a == Advance(vCtx, Append(results, Entry(p, FALSE, MsgNotSaved, <<>>)), now)
  IN /\ vPc' = a.pc
     /\ vCtx' = a.ctx
     /\ results' = a.results

\* the account createLinkedAccount is called with for the session in hand
CurAccount ==
  [discord_user_id |-> vCtx.user, guild_id |-> vCtx.guild,
   platform |-> vCtx.cur[1].platform, username |-> vCtx.cur[1].username,
   rank |-> vCtx.rank]

\* the followed sessions whose save has failed, after one more failure for id
Unsaved(u, id) == IF id \in DOMAIN u THEN [u EXCEPT ![id] = TRUE] ELSE u

\* the calls counted for the followed sessions, after one more call of step
\* what ("saves" or "roles") for session id
Called(calls, id, what) ==
  IF id \in DOMAIN calls THEN [calls EXCEPT ![id][what] = @ + 1] ELSE calls

\* the count of the step for session id can still grow
Countable(calls, id, what) ==
  id \in DOMAIN calls => calls[id][what] < MaxFinalizeCalls

\* a createLinkedAccount whose failure is swallowed: the code goes on to the
\* delete
VerifySave_swallowing ==
  /\ vPc = "save"
  /\ \E saved \in BOOLEAN :
       /\ saved => Countable(finalizeCalls, vCtx.cur[1].id, "saves")
       /\ linked' = IF saved THEN createLinkedAccount(linked, CurAccount) ELSE linked
       /\ unsaved' = IF saved THEN unsaved ELSE Unsaved(unsaved, vCtx.cur[1].id)
       /\ finalizeCalls' = IF saved
                             THEN Called(finalizeCalls, vCtx.cur[1].id, "saves")
                             ELSE finalizeCalls
       /\ vPc' = "delete"
       /\ UNCHANGED <<vCtx, results>>
  /\ UNCHANGED <<now, pending, nextId, reported, matchVars, members,
               cleanupJob, gateVars, catalogVars, env, vFilter, spellings, suspended>>

\* createLinkedAccount: saved, or it threw
VerifySave ==
  /\ vPc = "save"
  /\ \E saved \in BOOLEAN :
       IF saved
         THEN /\ Countable(finalizeCalls, vCtx.cur[1].id, "saves")
              /\ linked' = createLinkedAccount(linked, CurAccount)
              /\ finalizeCalls' = Called(finalizeCalls, vCtx.cur[1].id, "saves")
              /\ vPc' = "delete"
              /\ UNCHANGED <<vCtx, results, unsaved>>
         ELSE /\ NotSaved
              /\ unsaved' = Unsaved(unsaved, vCtx.cur[1].id)
              /\ UNCHANGED <<linked, finalizeCalls>>
  /\ UNCHANGED <<now, pending, nextId, reported, matchVars, members,
               cleanupJob, gateVars, catalogVars, env, vFilter, spellings, suspended>>

\* deletePendingVerification after the save: done, or it threw
VerifyDelete ==
  /\ vPc = "delete"
  /\ \E deleted \in BOOLEAN :
       IF deleted
         THEN /\ pending' = deletePendingVerification(pending, vCtx.cur[1].id)
              /\ vPc' = "roles"
              /\ UNCHANGED <<vCtx, results>>
         ELSE /\ NotSaved
              /\ UNCHANGED pending
  /\ UNCHANGED <<now, linked, nextId, reported, matchVars, members,
               unsaved, cleanupJob, auxVars>>

\* how a call of assignVerificationRoles ends: it returns what it assigned,
\* or it fails
assignVerificationRoles == { "assigned", "failed" }

\* assignVerificationRoles, then the success result; if it threw, the catch
\* block
VerifyRoles ==
  /\ vPc = "roles"
  /\ Countable(finalizeCalls, vCtx.cur[1].id, "roles")
  /\ finalizeCalls' = Called(finalizeCalls, vCtx.cur[1].id, "roles")
  /\ \E outcome \in assignVerificationRoles :
       IF outcome = "assigned"
         THEN LET p == vCtx.cur[1]
                  a == Advance(vCtx, Append(results,
                          Entry(p, TRUE, MsgVerified, <<>>)), now)
              IN /\ vPc' = a.pc
                 /\ vCtx' = a.ctx
                 /\ results' = a.results
         ELSE NotSaved
  /\ UNCHANGED <<now, pending, linked, nextId, reported, matchVars, members,
               unsaved, cleanupJob, gateVars, catalogVars, env, vFilter, spellings,
               suspended>>

RECURSIVE Report(_, _)
\* the remaining time last shown to the user for each session, after the
\* results entries es have been sent
Report(rep, es) ==
  IF es = <<>> THEN rep
  ELSE Report(IF Head(es).timeRemaining = <<>> \/ Head(es).row.id \notin DOMAIN rep
                THEN rep
              ELSE [rep EXCEPT ![Head(es).row.id] = Head(es).timeRemaining],
              Tail(es))

\* sendVerificationResults (or the "no pending verifications" reply)
VerifyReply ==
  /\ vPc = "reply"
  /\ vPc' = "idle"
  /\ vCtx' = IdleCtx
  /\ results' = <<>>
  /\ reported' = Report(reported, results)
  /\ UNCHANGED <<now, pending, linked, nextId, matchVars, members,
               unsaved, cleanupJob, auxVars>>

\* the event loop resumes another /verify invocation of the user at its
\* await while the one that ran waits at its own
Resume ==
  /\ suspended # <<>>
  /\ vPc # "idle" \/ suspended[1].pc # "idle"
  /\ vPc' = suspended[1].pc
  /\ vCtx' = suspended[1].ctx
  /\ results' = suspended[1].results
  /\ suspended' = <<[pc |-> vPc, ctx |-> vCtx, results |-> results]>>
  /\ UNCHANGED <<now, pending, linked, nextId, reported, matchVars, members,
               unsaved, cleanupJob, gateVars, catalogVars, env, vFilter, spellings,
               finalizeCalls>>

\* ------------------------------------------- the services' rate-limit gate

CF_REQUEST_DELAY == 250
CC_REQUEST_DELAY == 500
REQUEST_DELAY(b) == IF b = "codeforces" THEN CF_REQUEST_DELAY ELSE CC_REQUEST_DELAY

\* respectRateLimit entered at instant t: how long the caller sleeps before
\* it goes on (0: it goes on at once)
respectRateLimit(last, delay, t) ==
  LET timeSinceLastRequest == t - last IN
  IF timeSinceLastRequest < delay THEN delay - timeSinceLastRequest ELSE 0

IdleCaller == [pc |-> "idle", call |-> NULL, backend |-> NULL, wakeAt |-> 0, ticket |-> 0]

Waiting == { c \in DOMAIN callers : callers[c].pc = "waiting" }

\* requests issued, or still to be issued by the callers asleep in a gate
Underway == Len(wire) + Cardinality(Waiting)

\* one HTTP request as seen on the wire at this instant.  by and ticket (the
\* rank of the adapter call among the gate entries; 0 outside the adapters)
\* and passes (the gate passes made for this request) are bookkeeping.
Request(b, c, ticket, passes) ==
  [backend |-> b, at |-> now, by |-> c, ticket |-> ticket, passes |-> passes]

\* caller c begins adapter call `call` of backend b: await respectRateLimit(),
\* then, unless it has to sleep, lastRequestTime = Date.now() and axios.get
Enter(c, call, b) ==
  LET w == respectRateLimit(lastRequestTime[b], REQUEST_DELAY(b), now)
      k == Underway + 1
  IN
  /\ callers[c].pc = "idle"
  /\ Underway < MaxRequests
  /\ IF w > 0
       THEN /\ callers' = [callers EXCEPT ![c] =
                 [pc |-> "waiting", call |-> call, backend |-> b,
                  wakeAt |-> now + w, ticket |-> k]]
            /\ UNCHANGED <<lastRequestTime, wire>>
       ELSE /\ lastRequestTime' = [lastRequestTime EXCEPT ![b] = now]
            /\ wire' = Append(wire, Request(b, c, k, 1))
            /\ callers' = [callers EXCEPT ![c] =
                 [pc |-> "inflight", call |-> call, backend |-> b,
                  wakeAt |-> 0, ticket |-> k]]
  /\ UNCHANGED <<orchVars, matchVars, catalogVars>>

\* codeforces.service.js makeRequest (validateUser, getUserInfo,
\* getRecentSubmissions all go through it)
CFMakeRequest == \E c \in DOMAIN callers : Enter(c, "makeRequest", "codeforces")

\* the CodeChef calls that pass the gate and issue one request: validateUser,
\* getUserInfo, the status page of checkCompilationErrorSubmission
CCValidateUser == \E c \in DOMAIN callers : Enter(c, "validateUser", "codechef")

\* the CodeChef getRecentSubmissions: the gate, then the submissions API
CCGetRecentSubmissions ==
  \E c \in DOMAIN callers : Enter(c, "getRecentSubmissions", "codechef")

\* the setTimeout of respectRateLimit fires (at its time or later): the
\* caller sets lastRequestTime = Date.now() and issues its request
TimerFires ==
  \E c \in DOMAIN callers :
    LET b == callers[c].backend IN
    /\ callers[c].pc = "waiting"
    /\ now >= callers[c].wakeAt
    /\ lastRequestTime' = [lastRequestTime EXCEPT ![b] = now]
    /\ wire' = Append(wire, Request(b, c, callers[c].ticket, 1))
    /\ callers' = [callers EXCEPT ![c].pc = "inflight", ![c].wakeAt = 0]
    /\ UNCHANGED <<orchVars, matchVars, catalogVars>>

\* the response (or the error) of the request arrives and the call returns
Response ==
  \E c \in DOMAIN callers :
    /\ callers[c].pc \in { "inflight", "inflightAlt" }
    /\ callers' = [callers EXCEPT ![c] = IdleCaller]
    /\ UNCHANGED <<lastRequestTime, wire, orchVars, matchVars, catalogVars>>

\* getRecentSubmissions: the submissions API answered something that is not
\* an array, and the call goes on to the /recent/user endpoint
AltRequest ==
  \E c \in DOMAIN callers :
    /\ callers[c].pc = "inflight"
    /\ callers[c].call = "getRecentSubmissions"
    /\ Underway < MaxRequests
    /\ wire' = Append(wire, Request("codechef", c, callers[c].ticket, 0))
    /\ callers' = [callers EXCEPT ![c].pc = "inflightAlt"]
    /\ UNCHANGED <<lastRequestTime, orchVars, matchVars, catalogVars>>

GateTick ==
  /\ now < TickMs + MaxGateTicks * GateTickMs
  /\ now' = now + GateTickMs
  /\ UNCHANGED <<members, pending, linked, nextId, vPc, vCtx, results, reported,
               unsaved, cleanupJob, matchVars, auxVars>>

\* ------------------------------------------ the Codeforces problem catalog

CF_MIN_RATING == 800
CF_MAX_RATING == 1500
CF_CACHE_DURATION == 3600000

\* what problemset.problems may answer: lists of problems, some unrated
\* (rating 0) or outside the band
CatalogReplies ==
  { <<>>,
    <<[contestId |-> 1000, index |-> <<"A">>, rating |-> 800]>>,
    <<[contestId |-> 1001, index |-> <<"B">>, rating |-> 1600]>>,
    <<[contestId |-> 1000, index |-> <<"A">>, rating |-> 1500],
      [contestId |-> 1001, index |-> <<"A">>, rating |-> 0],
      [contestId |-> 1002, index |-> <<"B">>, rating |-> 800]>> }

\* a filter that only looks at the upper end of the band
FilterByRating_upTo(problems) ==
  SelectSeq(problems, LAMBDA q : q.rating <= CF_MAX_RATING)

\* response.data.result.problems.filter(...)
FilterByRating(problems) ==
  SelectSeq(problems, LAMBDA q : /\ q.rating # 0
                                 /\ q.rating >= CF_MIN_RATING
                                 /\ q.rating <= CF_MAX_RATING)

\* a cache that is still served when its age is exactly CF_CACHE_DURATION
cacheValid_inclusive(cache, stamp, t) ==
  /\ cache # <<>>
  /\ stamp # <<>>
  /\ stamp[1] # 0
  /\ t - stamp[1] <= CF_CACHE_DURATION

\* cfProblemsCache && cfCacheTimestamp &&
\*   Date.now() - cfCacheTimestamp < CF_CACHE_DURATION
cacheValid(cache, stamp, t) ==
  /\ cache # <<>>
  /\ stamp # <<>>
  /\ stamp[1] # 0
  /\ t - stamp[1] < CF_CACHE_DURATION

\* Math.random() as one of the fractions k / RandomSteps, k in 0..RandomSteps-1
RandomDraws == 0..(RandomSteps - 1)

\* problems[Math.floor(Math.random() * problems.length)], and the object
\* built from it
randomProblem(problems, k) ==
  LET problem == problems[((k * Len(problems)) \div RandomSteps) + 1] IN
  [id |-> cfProblemId(problem), contestId |-> problem.contestId,
   index |-> problem.index, rating |-> problem.rating]

\* a finished call, begun at instant t: the list fetchCodeforcesProblems
\* returned and how it got it; getRandomCodeforcesProblem throws on an empty
\* list.  hit: a call since the last successful fetch was served by the cache.
\* and problem: what getRandomCodeforcesProblem returned on the draw k.
Picked(t, list, outcome, hit, k) ==
  [pc |-> "done", at |-> t, served |-> list, outcome |-> outcome,
   threw |-> list = <<>>, hit |-> hit,
   problem |-> IF list = <<>> THEN <<>> ELSE <<randomProblem(list, k)>>]

HadHit == pick.pc # "none" /\ pick.hit

\* getRandomCodeforcesProblem is called: fetchCodeforcesProblems returns the
\* cache if it is valid, otherwise it issues the request
PickProblem ==
  /\ pick.pc # "fetching"
  /\ IF cacheValid(cfProblemsCache, cfCacheTimestamp, now)
       THEN /\ \E k \in RandomDraws :
                 pick' = Picked(now, cfProblemsCache[1], "cache", TRUE, k)
            /\ UNCHANGED wire
       ELSE /\ Underway < MaxRequests
            /\ wire' = Append(wire, Request("codeforces", "catalog", 0, 0))
            /\ pick' = [pc |-> "fetching", at |-> now, hit |-> HadHit]
  /\ UNCHANGED <<cfProblemsCache, cfCacheTimestamp, lastRequestTime, callers,
               orchVars, matchVars>>

\* the response arrived with status OK: filter, fill the cache, stamp it
PickFetched ==
  /\ pick.pc = "fetching"
  /\ \E reply \in CatalogReplies :
       LET problems == FilterByRating(reply) IN
       /\ cfProblemsCache' = <<problems>>
       /\ cfCacheTimestamp' = <<now>>
       /\ \E k \in RandomDraws :
            pick' = Picked(pick.at, problems, "fetched", FALSE, k)
  /\ UNCHANGED <<gateVars, orchVars, matchVars>>

\* a catch block that stamps the cache it serves as fresh
PickFailed_restamping ==
  /\ pick.pc = "fetching"
  /\ \E k \in RandomDraws :
       pick' = IF cfProblemsCache # <<>>
                 THEN Picked(pick.at, cfProblemsCache[1], "stale", pick.hit, k)
               ELSE [pc |-> "done", at |-> pick.at, served |-> <<>>,
                     outcome |-> "failed", threw |-> TRUE, hit |-> pick.hit,
                     problem |-> <<>>]
  /\ cfCacheTimestamp' = IF cfProblemsCache # <<>> THEN <<now>> ELSE cfCacheTimestamp
  /\ UNCHANGED <<cfProblemsCache, gateVars, orchVars, matchVars>>

\* the request failed or the status was not OK: the stale cache if there is
\* one, otherwise the error is rethrown
PickFailed ==
  /\ pick.pc = "fetching"
  /\ \E k \in RandomDraws :
       pick' = IF cfProblemsCache # <<>>
                 THEN Picked(pick.at, cfProblemsCache[1], "stale", pick.hit, k)
               ELSE [pc |-> "done", at |-> pick.at, served |-> <<>>,
                     outcome |-> "failed", threw |-> TRUE, hit |-> pick.hit,
                     problem |-> <<>>]
  /\ UNCHANGED <<cfProblemsCache, cfCacheTimestamp, gateVars, orchVars, matchVars>>

CatalogTick ==
  /\ now < TickMs + MaxCatalogTicks * CatalogTickMs
  /\ now' = now + CatalogTickMs
  /\ UNCHANGED <<members, pending, linked, nextId, vPc, vCtx, results, reported,
               unsaved, cleanupJob, matchVars, auxVars>>

\* ------------------------------------------------------- clock and sweep

Tick ==
  /\ now < TickMs * (MaxTicks + 1)
  /\ now' = now + TickMs
  /\ UNCHANGED <<pending, linked, nextId, vPc, vCtx, results, reported, matchVars, members,
               unsaved, cleanupJob, auxVars>>

\* the setInterval callback of startCleanupJob
Sweep ==
  /\ cleanupJob.timer = "running"
  /\ pending' = cleanupExpiredVerifications(pending, now)
  /\ UNCHANGED <<now, linked, nextId, vPc, vCtx, results, reported, matchVars, members,
               unsaved, cleanupJob, auxVars>>

\* the deployments watched: VERIFICATION_TIMEOUT is left unset
Deployments == { <<>> }

\* nobody is calling the judges and the catalog has never been fetched
AuxInit ==
  /\ lastRequestTime = [b \in Backends |-> 0]
  /\ callers = <<>>
  /\ wire = <<>>
  /\ cfProblemsCache = <<>>
  /\ cfCacheTimestamp = <<>>
  /\ pick = NoPick

\* the bot is ready: the tables are empty and the cleanup job has been started
\* the ids of the sessions a cleanup run at instant t is to delete
Overdue(rows, t) == { r.id : r \in rows \ cleanupExpiredVerifications(rows, t) }

\* a callback whose error escapes and ends the timer
SweepFailed_stopping ==
  /\ cleanupJob.timer = "running"
  /\ cleanupJob' = [timer |-> "stopped",
                    missed |-> cleanupJob.missed \cup Overdue(pending, now)]
  /\ UNCHANGED <<members, now, pending, linked, nextId, vPc, vCtx, results, reported,
               matchVars, unsaved, auxVars>>

\* the setInterval callback when cleanupExpiredVerifications throws: the
\* catch logs the error, nothing is deleted and the timer goes on
SweepFailed ==
  /\ cleanupJob.timer = "running"
  /\ cleanupJob' = [cleanupJob EXCEPT !.missed = @ \cup Overdue(pending, now)]
  /\ UNCHANGED <<members, now, pending, linked, nextId, vPc, vCtx, results, reported,
               matchVars, unsaved, auxVars>>

TablesInit ==
  /\ now = TickMs
  /\ cleanupJob = [timer |-> "running", missed |-> {}]
  /\ pending = {}
  /\ linked = {}
  /\ nextId = 1
  /\ vPc = "idle"
  /\ vCtx = IdleCtx
  /\ results = <<>>

\* one /verify at a time, no session's finalize calls counted
SoloInit ==
  /\ suspended = <<>>
  /\ finalizeCalls = <<>>

StoreInit ==
  /\ TablesInit
  /\ SoloInit
  /\ env \in Deployments
  /\ spellings = TypedNames
  /\ vFilter = Unfollowed

\* every user; no session's reported times are followed
OrchInit ==
  /\ members = Users
  /\ reported = <<>>
  /\ unsaved = <<>>
  /\ StoreInit

Init ==
  /\ OrchInit
  /\ AuxInit
  /\ mPc = "off"
  /\ mIn = NULL
  /\ mOut = NULL

Next ==
  \/ LinkCodeforces
  \/ LinkCodechef
  \/ VerifyStart
  \/ VerifyExpired
  \/ VerifyCheckCodeforces
  \/ VerifyCheckCodechef
  \/ VerifyChecked
  \/ VerifyRank
  \/ VerifySave
  \/ VerifyDelete
  \/ VerifyRoles
  \/ VerifyReply
  \/ Tick
  \/ Sweep

Spec == Init /\ [][Next]_vars

\* the matcher harness as a specification
MatchInit ==
  /\ OrchInit
  /\ AuxInit
  /\ mPc = "ready"
  /\ mIn \in CFInputs \cup CCInputs
  /\ mOut = NULL

MatchCodeforces ==
  /\ mPc = "ready"
  /\ mIn.platform = "codeforces"
  /\ mOut' = MatchCheck(mIn)
  /\ mPc' = "done"
  /\ UNCHANGED <<mIn, orchVars, auxVars>>

MatchCodechef ==
  /\ mPc = "ready"
  /\ mIn.platform = "codechef"
  /\ mOut' = MatchCheck(mIn)
  /\ mPc' = "done"
  /\ UNCHANGED <<mIn, orchVars, auxVars>>

MatchNext == MatchCodeforces \/ MatchCodechef

SpecMatch == MatchInit /\ [][MatchNext]_vars

\* repeated /verify of one user, the remaining times reported for the first
\* session being followed
IdemInit ==
  /\ members = { "u1" }
  /\ reported = [i \in { 1 } |-> <<>>]
  /\ unsaved = <<>>
  /\ StoreInit
  /\ AuxInit
  /\ mPc = "off"
  /\ mIn = NULL
  /\ mOut = NULL

SpecIdem == IdemInit /\ [][Next]_vars

\* repeated /verify of one user, the failed saves of the first session being
\* followed
RetryInit ==
  /\ members = { "u1" }
  /\ reported = <<>>
  /\ unsaved = [i \in { 1 } |-> FALSE]
  /\ StoreInit
  /\ AuxInit
  /\ mPc = "off"
  /\ mIn = NULL
  /\ mOut = NULL

SpecRetry == RetryInit /\ [][Next]_vars

\* /link and the cleanup job alone: nobody runs /verify.  The timer fires
\* every CLEANUP_INTERVAL for as long as it runs, and the store does not fail
\* forever: a successful cleanup run is always eventually made.
SweepNext ==
  \/ LinkCodeforces
  \/ LinkCodechef
  \/ Tick
  \/ Sweep
  \/ SweepFailed

SpecSweep == Init /\ [][SweepNext]_vars /\ WF_vars(Sweep)

\* the services and the catalog under callers that await each call
GateInit ==
  /\ OrchInit
  /\ lastRequestTime = [b \in Backends |-> 0]
  /\ callers = [c \in { "c1" } |-> IdleCaller]
  /\ wire = <<>>
  /\ cfProblemsCache = <<>>
  /\ cfCacheTimestamp = <<>>
  /\ pick = NoPick
  /\ mPc = "off"
  /\ mIn = NULL
  /\ mOut = NULL

GateNext ==
  \/ CFMakeRequest
  \/ CCValidateUser
  \/ CCGetRecentSubmissions
  \/ TimerFires
  \/ Response
  \/ AltRequest
  \/ GateTick

\* one caller making its adapter calls one after the other
SpecGateSeq == GateInit /\ [][GateNext]_vars

GateCatalogInit ==
  /\ OrchInit
  /\ lastRequestTime = [b \in Backends |-> 0]
  /\ callers = [c \in { "c1", "c2" } |-> IdleCaller]
  /\ wire = <<>>
  /\ cfProblemsCache = <<>>
  /\ cfCacheTimestamp = <<>>
  /\ pick = NoPick
  /\ mPc = "off"
  /\ mIn = NULL
  /\ mOut = NULL

\* two callers (two commands in flight), and the catalog
GateCatalogNext ==
  \/ GateNext
  \/ PickProblem
  \/ PickFetched
  \/ PickFailed

SpecGate == GateCatalogInit /\ [][GateCatalogNext]_vars

\* the catalog alone, over hours
CatalogNext ==
  \/ PickProblem
  \/ PickFetched
  \/ PickFailed
  \/ CatalogTick

SpecCatalog == Init /\ [][CatalogNext]_vars

\* /link under every setting of VERIFICATION_TIMEOUT: nobody runs /verify
WindowInit ==
  /\ env \in EnvSettings
  /\ spellings = TypedNames
  /\ vFilter = Unfollowed
  /\ members = Users
  /\ reported = <<>>
  /\ unsaved = <<>>
  /\ TablesInit
  /\ SoloInit
  /\ AuxInit
  /\ mPc = "off"
  /\ mIn = NULL
  /\ mOut = NULL

LinkNext ==
  \/ LinkCodeforces
  \/ LinkCodechef
  \/ Tick

SpecWindow == WindowInit /\ [][LinkNext]_vars

\* no /link has been made yet
NoCall ==
  [platform |-> NULL, user |-> NULL, guild |-> NULL, username |-> <<>>,
   net |-> FALSE, infoOk |-> FALSE, catalog |-> NULL]

\* /link alone, each invocation being followed; another user may already
\* hold the Codeforces account bob in the guild
LinkInit ==
  /\ env \in Deployments
  /\ spellings = TypedSpellings
  /\ vFilter = Unfollowed
  /\ members = Users
  /\ reported = <<>>
  /\ unsaved = <<>>
  /\ now = TickMs
  /\ cleanupJob = [timer |-> "running", missed |-> {}]
  /\ pending = {}
  /\ linked \in { {}, { [discord_user_id |-> "u2", guild_id |-> "g1",
                          platform |-> "codeforces", username |-> Str_bob,
                          rank |-> "pupil"] } }
  /\ nextId = 1
  /\ vPc = "idle"
  /\ vCtx = IdleCtx
  /\ results = <<>>
  /\ SoloInit
  /\ AuxInit
  /\ mPc = "following"
  /\ mIn = NoCall
  /\ mOut = NULL

SpecLink == LinkInit /\ [][LinkNext]_vars

\* /link and /verify of one user, the platform option of each /verify being
\* followed
FilterInit ==
  /\ env \in Deployments
  /\ spellings = TypedNames
  /\ vFilter = NULL
  /\ members = { "u1" }
  /\ reported = <<>>
  /\ unsaved = <<>>
  /\ TablesInit
  /\ SoloInit
  /\ AuxInit
  /\ mPc = "off"
  /\ mIn = NULL
  /\ mOut = NULL

SpecFilter == FilterInit /\ [][Next]_vars

\* pending_verifications after the first /link of u1, made at instant t
\* for the account bob of a judge with the problem the handler was given
FirstLink(platform, problemId, t) ==
  createPendingVerification({},
    [discord_user_id |-> "u1", guild_id |-> "g1", platform |-> platform,
     username |-> Str_bob, problem_id |-> problemId,
     expires_at |-> getExpirationTime(VERIFICATION_TIMEOUT, t)], 1, t)

FirstLinks(t) ==
  { FirstLink("codeforces", cfProblemId(problem), t) : problem \in CFProblems }
  \cup { FirstLink("codechef", problem, t) : problem \in codechefProblems }

\* u1 has made one /link and now runs /verify twice at a time; the finalize
\* calls made for the session are counted
RaceInit ==
  /\ env \in Deployments
  /\ spellings = TypedNames
  /\ vFilter = Unfollowed
  /\ members = { "u1" }
  /\ reported = <<>>
  /\ unsaved = <<>>
  /\ now = TickMs
  /\ cleanupJob = [timer |-> "running", missed |-> {}]
  /\ pending \in FirstLinks(TickMs)
  /\ linked = {}
  /\ nextId = 2
  /\ vPc = "idle"
  /\ vCtx = IdleCtx
  /\ results = <<>>
  /\ suspended = <<[pc |-> "idle", ctx |-> IdleCtx, results |-> <<>>]>>
  /\ finalizeCalls = [i \in { 1 } |-> [saves |-> 0, roles |-> 0]]
  /\ AuxInit
  /\ mPc = "off"
  /\ mIn = NULL
  /\ mOut = NULL

RaceNext ==
  \/ VerifyStart
  \/ VerifyExpired
  \/ VerifyCheckCodeforces
  \/ VerifyCheckCodechef
  \/ VerifyChecked
  \/ VerifyRank
  \/ VerifySave
  \/ VerifyDelete
  \/ VerifyRoles
  \/ VerifyReply
  \/ Resume
  \/ Tick

SpecRace == RaceInit /\ [][RaceNext]_vars

\* the problems problemset.problems may list: the index is whatever string
\* the judge sends, usually a letter or a letter with digits
IndexChars == { "A", "a", "1" }
ListedProblems ==
  [contestId : { 1, 1000 },
   index : { <<c>> : c \in IndexChars } \cup
           { <<c, d>> : c \in IndexChars, d \in IndexChars },
   rating : { CF_MIN_RATING }]

\* u1 has made one /link codeforces, the catalog having returned the problem
\* kept in mIn, and runs /verify
ProblemIdInit ==
  /\ env \in Deployments
  /\ spellings = TypedNames
  /\ vFilter = Unfollowed
  /\ members = { "u1" }
  /\ reported = <<>>
  /\ unsaved = <<>>
  /\ now = TickMs
  /\ cleanupJob = [timer |-> "running", missed |-> {}]
  /\ mPc = "assigned"
  /\ mIn \in ListedProblems
  /\ mOut = NULL
  /\ pending = FirstLink("codeforces", randomProblem(<<mIn>>, 0).id, TickMs)
  /\ linked = {}
  /\ nextId = 2
  /\ vPc = "idle"
  /\ vCtx = IdleCtx
  /\ results = <<>>
  /\ SoloInit
  /\ AuxInit

ProblemIdNext ==
  \/ VerifyStart
  \/ VerifyExpired
  \/ VerifyCheckCodeforces
  \/ VerifyChecked
  \/ VerifyRank
  \/ VerifySave
  \/ VerifyDelete
  \/ VerifyRoles
  \/ VerifyReply
  \/ Tick

SpecProblemId == ProblemIdInit /\ [][ProblemIdNext]_vars

\* the submissions of the claimed user as the judge has them, newest first:
\* a compilation error on the assigned problem 1000A, stamped after
\* startedAt, and the submissions the user made after it
LaterSubmissions(ts) ==
  { [contestId |-> 1001, problemIndex |-> <<"B">>, verdict |-> "WRONG_ANSWER",
     creationTimeSeconds |-> ts],
    [contestId |-> 1001, problemIndex |-> <<"B">>, verdict |-> CE_VERDICT,
     creationTimeSeconds |-> ts],
    [contestId |-> 1000, problemIndex |-> <<"A">>, verdict |-> "WRONG_ANSWER",
     creationTimeSeconds |-> ts] }

HistoryInputs ==
  UNION { UNION { { [platform |-> "codeforces", startedAt |-> t, contestId |-> 1000,
                     problemIndex |-> <<"A">>,
                     history |-> [i \in 1..k |-> later] \o
                       << [contestId |-> 1000, problemIndex |-> <<"a">>,
                           verdict |-> CE_VERDICT,
                           creationTimeSeconds |-> t \div MsPerSecond + 1] >>] :
                    later \in LaterSubmissions(t \div MsPerSecond + 2) } :
                  k \in 0..MaxLater } :
          t \in StartInstants }

HistoryInit ==
  /\ OrchInit
  /\ AuxInit
  /\ mPc = "ready"
  /\ mIn \in HistoryInputs
  /\ mOut = NULL

\* checkCompilationErrorSubmission of the Codeforces service against the
\* judge's history: the user.status request, which may fail, then the search
CheckHistory ==
  /\ mPc = "ready"
  /\ \E threw \in BOOLEAN :
       mOut' = cfCheckCompilationErrorSubmission(
                 [threw |-> threw,
                  submissions |-> IF threw THEN <<>>
                                  ELSE userStatus(mIn.history, 1, SUBMISSIONS_FETCHED)],
                 mIn.contestId, mIn.problemIndex, mIn.startedAt)
  /\ mPc' = "done"
  /\ UNCHANGED <<mIn, orchVars, auxVars>>

SpecHistory == HistoryInit /\ [][CheckHistory]_vars

\* a session of problem 1000A started at some instant, and the instant at
\* which the user submitted a compilation error to the problem
FloorInputs ==
  [platform : { "codeforces" }, contestId : { 1000 }, problemIndex : { <<"A">> },
   startedAt : { k * FloorStepMs : k \in 4..(FloorSteps - 2) },
   madeAt : { k * FloorStepMs : k \in 2..FloorSteps }]

\* the judge stamps a submission with the whole second it was made in
creationTimeSeconds(madeAt) == madeAt \div MsPerSecond

FloorInit ==
  /\ OrchInit
  /\ AuxInit
  /\ mPc = "ready"
  /\ mIn \in FloorInputs
  /\ mOut = NULL

\* the Codeforces check of the session against that one submission
CheckStamped ==
  /\ mPc = "ready"
  /\ mOut' = cfCheckCompilationErrorSubmission(
               [threw |-> FALSE,
                submissions |-> << [contestId |-> mIn.contestId,
                                    problemIndex |-> mIn.problemIndex,
                                    verdict |-> CE_VERDICT,
                                    creationTimeSeconds |->
                                      creationTimeSeconds(mIn.madeAt)] >>],
               mIn.contestId, mIn.problemIndex, mIn.startedAt)
  /\ mPc' = "done"
  /\ UNCHANGED <<mIn, orchVars, auxVars>>

SpecFloor == FloorInit /\ [][CheckStamped]_vars

\* one adapter call against the replies of its judge.  A judge answers for
\* the accounts it has: it finds the handles it knows and no others.
CFRepliesFor(username) ==
  { r \in CFReplies(username) :
      /\ r.apiStatus = "OK" => cfLookup(username) # {}
      /\ r.comment = cfNoSuchUser(username) => cfLookup(username) = {} }

CCRepliesFor(username) ==
  { r \in CCReplies :
      /\ r.status = 200 => username \in CCAccounts
      /\ r.status = 404 => username \notin CCAccounts }

\* the calls made with username n; fallback is the reply to the second
\* request of the call, should it make one
AdapterInputsFor(n) ==
  { [op |-> op, platform |-> "codeforces", username |-> n, reply |-> r,
     fallback |-> r] :
      op \in { "validateUser", "getUserInfo" }, r \in CFRepliesFor(n) }
  \cup
  { [op |-> "validateUser", platform |-> "codechef", username |-> n,
     reply |-> r, fallback |-> r] : r \in CCRepliesFor(n) }
  \cup
  { [op |-> "getUserInfo", platform |-> "codechef", username |-> n,
     reply |-> r, fallback |-> f] :
      r \in CCRepliesFor(n), f \in CCRepliesFor(n) }

AdapterInputs == UNION { AdapterInputsFor(n) : n \in TypedNames }

AdapterInit ==
  /\ OrchInit
  /\ AuxInit
  /\ mPc = "ready"
  /\ mIn \in AdapterInputs
  /\ mOut = NULL

\* the call returns (or throws) and the harness keeps what it did
Answer(result) ==
  /\ mOut' = result
  /\ mPc' = "done"
  /\ UNCHANGED <<mIn, orchVars, auxVars>>

ValidateUserCodeforces ==
  /\ mPc = "ready"
  /\ mIn.op = "validateUser"
  /\ mIn.platform = "codeforces"
  /\ Answer([result |-> validateUserCodeforces(mIn.reply), requests |-> 1])

GetUserInfoCodeforces ==
  /\ mPc = "ready"
  /\ mIn.op = "getUserInfo"
  /\ mIn.platform = "codeforces"
  /\ Answer([result |-> getUserInfoCodeforces(mIn.username, mIn.reply),
             requests |-> 1])

ValidateUserCodechef ==
  /\ mPc = "ready"
  /\ mIn.op = "validateUser"
  /\ mIn.platform = "codechef"
  /\ Answer([result |-> validateUserCodechef(mIn.reply), requests |-> 1])

GetUserInfoCodechef ==
  /\ mPc = "ready"
  /\ mIn.op = "getUserInfo"
  /\ mIn.platform = "codechef"
  /\ Answer(getUserInfoCodechef(mIn.username, mIn.reply, mIn.fallback))

AdapterNext ==
  \/ ValidateUserCodeforces
  \/ GetUserInfoCodeforces
  \/ ValidateUserCodechef
  \/ GetUserInfoCodechef

SpecAdapter == AdapterInit /\ [][AdapterNext]_vars

\* ------------------------------------------------- vocabulary of the claims

\* the second an instant falls in (truncation to whole seconds)
StartSecond(startedAt) ==
  CHOOSE k \in SecondsAround(startedAt) :
    k * MsPerSecond <= startedAt /\ startedAt < (k + 1) * MsPerSecond

\* a submission stamped with whole second ts counts as at or after startedAt
StampAtOrAfter(ts, startedAt) == ts >= StartSecond(startedAt)

SameLetters(a, b) == toLowerCase(a) = toLowerCase(b)

\* the outcome a check result stands for
Outcome(out) ==
  IF out.threw THEN "Error"
  ELSE IF out.verified THEN "Verified"
  ELSE IF out.message[1] = "Found submission but verdict was" THEN "Mismatch"
  ELSE IF out.message[1] = "No submission found to the specified problem"
    THEN "NotYet"
  ELSE "Other"

CFDone == mPc = "done" /\ mIn.platform = "codeforces"
CCDone == mPc = "done" /\ mIn.platform = "codechef"

\* indices of the observed Codeforces submissions to the session's problem
CFToProblem ==
  { i \in 1..Len(mIn.resp.submissions) :
      /\ mIn.resp.submissions[i].contestId = mIn.contestId
      /\ SameLetters(mIn.resp.submissions[i].problemIndex, mIn.problemIndex) }

CFFresh ==
  { i \in CFToProblem :
      StampAtOrAfter(mIn.resp.submissions[i].creationTimeSeconds, mIn.startedAt) }

CFQualifying ==
  { i \in CFFresh : mIn.resp.submissions[i].verdict = CE_VERDICT }

\* a CodeChef result string that says "compilation error"
CCSaysCE(r) == SameLetters(r, Str_compilation_error) \/ SameLetters(r, Str_ce)

CCQualifying ==
  { i \in 1..Len(mIn.recent) :
      /\ SameLetters(mIn.recent[i].problemCode, mIn.problemCode)
      /\ CCSaysCE(mIn.recent[i].result)
      /\ StampAtOrAfter(mIn.recent[i].date, mIn.startedAt) }

\* ------------------------------------------------------------------- C2
\* C2 (as claimed): on both backends the check returns Verified only if some
\* compilation-error submission to the assigned problem is stamped at or
\* after startedAt.
C2_ReplayProtection ==
  /\ (CFDone /\ Outcome(mOut) = "Verified") => CFQualifying # {}
  /\ (CCDone /\ Outcome(mOut) = "Verified") => CCQualifying # {}

C9_CCEmptyFetch ==
  (CCDone /\ mOut.fetched /\ mIn.recent = <<>>) =>
    /\ Outcome(mOut) = "NotYet"
    /\ ~mOut.verified
    /\ mOut.message = <<"No submission found to the specified problem">>

C9_Witness ==
  /\ CCDone
  /\ mOut.fetched
  /\ mIn.recent = <<>>
  /\ mIn.status.status = 200
  /\ mIn.status.data # <<>>
  /\ Outcome(mOut) = "NotYet"

\* ------------------------------------------- vocabulary of the /verify claims

\* the step pushes one more element onto the results array
Pushes == Len(results') = Len(results) + 1
Pushed == results'[Len(results) + 1]

\* a step of the /verify invocation in flight
VerifyStep == <<vPc, vCtx, results>>' # <<vPc, vCtx, results>>

IsExpiredEntry(e) == ~e.success /\ e.message = MsgExpired
IsFailedCheckEntry(e) == ~e.success /\ e.message = MsgFailedCheck
IsMismatchEntry(e) ==
  ~e.success /\ e.message[1] = "Found submission but verdict was"
IsNotYetEntry(e) ==
  /\ ~e.success
  /\ e.message = <<"No submission found to the specified problem">>
  /\ e.timeRemaining # <<>>

\* a reported remaining time, in seconds ("Expired": none left)
Rem(formatted) ==
  IF Len(formatted) = 1 THEN 0 ELSE formatted[1] * 60 + formatted[3]

\* what the judge answered to the check of session p holds a compilation
\* error to the assigned problem stamped at or after startedAt
ShowsQualifying(p, resp) ==
  IF p.platform = "codeforces"
    THEN \E i \in 1..Len(resp.submissions) :
           /\ resp.submissions[i].contestId =
                parseCodeforcesProblemId(p.problem_id).contestId
           /\ SameLetters(resp.submissions[i].problemIndex,
                          parseCodeforcesProblemId(p.problem_id).index)
           /\ resp.submissions[i].verdict = CE_VERDICT
           /\ resp.submissions[i].creationTimeSeconds * MsPerSecond
                >= (p.started_at \div MsPerSecond) * MsPerSecond
    ELSE \/ includes(toLowerCase(resp.status.data), Str_compilation_error)
         \/ \E i \in 1..Len(resp.recent) :
              /\ SameLetters(resp.recent[i].problemCode, p.problem_id)
              /\ CCSaysCE(resp.recent[i].result)
              /\ resp.recent[i].date * MsPerSecond
                   >= (p.started_at \div MsPerSecond) * MsPerSecond

\* the judge answered, and the answer holds no submission to the assigned
\* problem that the backend's check counts: for Codeforces one stamped at or
\* after startedAt, for CodeChef one of any date or a compilation error on
\* the status page
ShowsNothingCounted(p, resp) ==
  IF p.platform = "codeforces"
    THEN /\ ~resp.threw
         /\ \A i \in 1..Len(resp.submissions) :
              ~(/\ resp.submissions[i].contestId =
                     parseCodeforcesProblemId(p.problem_id).contestId
                /\ SameLetters(resp.submissions[i].problemIndex,
                               parseCodeforcesProblemId(p.problem_id).index)
                /\ resp.submissions[i].creationTimeSeconds * MsPerSecond
                     >= (p.started_at \div MsPerSecond) * MsPerSecond)
    ELSE /\ ~resp.status.threw
         /\ ~includes(toLowerCase(resp.status.data), Str_compilation_error)
         /\ \A i \in 1..Len(resp.recent) :
              ~SameLetters(resp.recent[i].problemCode, p.problem_id)

C3_LinkOnlyVerified ==
  [][ linked' # linked =>
        /\ vPc = "save"
        /\ vCtx.cur # <<>>
        /\ vCtx.cur[1].discord_user_id = vCtx.user
        /\ vCtx.cur[1].guild_id = vCtx.guild
        /\ vCtx.cur[1].id < nextId
        /\ ~(vCtx.checkedAt > vCtx.cur[1].expires_at)
        /\ vCtx.verified
        /\ linked' \ linked =
             { [discord_user_id |-> vCtx.user, guild_id |-> vCtx.guild,
                platform |-> vCtx.cur[1].platform,
                username |-> vCtx.cur[1].username, rank |-> vCtx.rank] }
        /\ \A x \in linked \ linked' :
             /\ x.discord_user_id = vCtx.user
             /\ x.platform = vCtx.cur[1].platform
             /\ x.username = vCtx.cur[1].username ]_vars

\* the account of the session in hand has just been saved
C3_Witness ==
  /\ vPc = "delete"
  /\ vCtx.verified
  /\ vCtx.cur[1].platform = "codechef"
  /\ \E x \in linked :
       /\ x.discord_user_id = vCtx.user
       /\ x.platform = "codechef"
       /\ x.username = vCtx.cur[1].username

\* ------------------------------------------------------------------- C4
\* C4: after any sequence of /link operations the store holds at most one
\* pending session per (user, guild, platform), and a /link that starts a
\* session leaves its own row as the only one of its key.
SameKey(a, b) ==
  /\ a.discord_user_id = b.discord_user_id
  /\ a.guild_id = b.guild_id
  /\ a.platform = b.platform

C4_OnePendingPerKey ==
  [][ /\ \A a, b \in pending' : SameKey(a, b) => a = b
      /\ nextId' # nextId =>
           \E r \in pending' :
             /\ r.id = nextId
             /\ r.started_at = now
             /\ \A x \in pending' : SameKey(x, r) => x = r ]_vars

\* the second session is in the store alone, before any session can have
\* expired and with none verified: it superseded the first
C4_Witness ==
  /\ nextId = 3
  /\ now = TickMs
  /\ linked = {}
  /\ \E r \in pending : r.id = 2 /\ pending = { r }

RecaseSubmissions(subs, F(_)) ==
  [i \in 1..Len(subs) |-> [subs[i] EXCEPT !.problemIndex = F(@)]]

RecaseRecent(subs, F(_)) ==
  [i \in 1..Len(subs) |-> [subs[i] EXCEPT !.problemCode = F(@), !.result = F(@)]]

\* the page with the user name as it is and the rest recased
RecasePage(data, username, F(_)) ==
  IF Len(data) >= Len(username) /\ SubSeq(data, 1, Len(username)) = username
    THEN username \o F(SubSeq(data, Len(username) + 1, Len(data)))
    ELSE F(data)

Recase(in, F(_)) ==
  IF in.platform = "codeforces"
    THEN [in EXCEPT !.resp.submissions = RecaseSubmissions(@, F)]
    ELSE [in EXCEPT !.status.data = RecasePage(@, in.username, F),
                    !.recent = RecaseRecent(@, F)]

C7_CaseInsensitive ==
  mPc = "done" =>
    /\ Outcome(MatchCheck(Recase(mIn, toUpperCase))) = Outcome(mOut)
    /\ Outcome(MatchCheck(Recase(mIn, toLowerCase))) = Outcome(mOut)

\* ------------------------------------------------------------------- C10
\* C10: the steps by which /verify checks a session and reports NotYet,
\* Mismatch or a failed check for it leave the store as it is: the session
\* is neither deleted nor altered.
C10_FailedVerifyKeepsSession ==
  [][ /\ (vPc \in { "check", "checked" } /\ VerifyStep) => pending' = pending
      /\ (Pushes /\ (\/ IsNotYetEntry(Pushed)
                     \/ IsMismatchEntry(Pushed)
                     \/ IsFailedCheckEntry(Pushed)))
           => /\ vPc = "checked"
              /\ Pushed.row = vCtx.cur[1]
              /\ pending' = pending ]_vars

\* Mismatch and a failed check have been reported for two sessions that are
\* still in the store
C10_Witness ==
  /\ Len(results) = 2
  /\ IsMismatchEntry(results[1])
  /\ IsFailedCheckEntry(results[2])
  /\ results[1].row \in pending
  /\ results[2].row \in pending

\* ------------------------------------------------------------------ finalize

\* the session in hand is in the pending table
CurPending == \E r \in pending : r.id = vCtx.cur[1].id

C12_RoleFailureStillSuccess ==
  [][ (VerifyStep /\ vPc = "roles") =>
        /\ CurAccount \in linked'
        /\ Pushes
        /\ Pushed.row = vCtx.cur[1]
        /\ Pushed.success
        /\ Pushed.message = MsgVerified
    ]_vars

\* C13: when the check verified the session but createLinkedAccount failed,
\* the entry pushed for the session is a failure with the "verified but not
\* saved" message, which no step outside the finalize pushes; neither table
\* changes, so the session stays in the store as it was.  (That a later
\* /verify before expiry can then finalize it is the reachable state
\* C13_Witness.)
C13_SaveFailureKeepsSession ==
  [][ /\ (VerifyStep /\ vPc = "save" /\ vPc' # "delete") =>
            /\ Pushes
            /\ Pushed = Entry(vCtx.cur[1], FALSE, MsgNotSaved, <<>>)
            /\ pending' = pending
            /\ linked' = linked
      /\ (Pushes /\ Pushed.message = MsgNotSaved) =>
            (vPc \in { "save", "delete", "roles" } /\ ~Pushed.success)
    ]_vars

\* the save of the first session's account failed in an earlier /verify; a
\* later /verify, begun before the session expired, has saved the account and
\* deleted the session
C13_Witness ==
  /\ 1 \in DOMAIN unsaved
  /\ unsaved[1]
  /\ vPc = "roles"
  /\ vCtx.cur[1].id = 1
  /\ vCtx.checkedAt <= vCtx.cur[1].expires_at
  /\ CurAccount \in linked
  /\ ~CurPending

\* ------------------------------------------------------------- cleanup job

\* session id is in the store and its expires_at has passed
Lapsed(id) == \E r \in pending : r.id = id /\ r.expires_at < now

\* C14: once the bot is ready, every session whose expires_at has passed is
\* eventually gone from the store although nobody runs /verify, and the
\* timer of the cleanup job keeps running whatever its runs do (a failed run
\* does not stop the later ones).
C14_SweepEventuallyDeletes ==
  /\ [](cleanupJob.timer = "running")
  /\ \A id \in 1..MaxLinks :
       Lapsed(id) ~> ~(\E r \in pending : r.id = id)

\* a cleanup run failed while the only session ever created was overdue, and
\* a later run has deleted that session
C14_Witness ==
  /\ nextId = 2
  /\ 1 \in cleanupJob.missed
  /\ pending = {}

\* ------------------------------------------------------- rate-limit gate

\* requests i and j of the wire, i the earlier, go to the same backend
SameBackend(i, j) == i < j /\ wire[i].backend = wire[j].backend

Spaced(i, j) == wire[j].at - wire[i].at >= REQUEST_DELAY(wire[i].backend)

\* request i was issued by an adapter call on passing the gate
ThroughGate(i) == wire[i].passes = 1

\* C15: one caller making its adapter calls one after the other: any two
\* requests to the same backend that come from two different calls are
\* issued at least the backend's REQUEST_DELAY apart.
C15_SequentialSpacing ==
  \A i, j \in DOMAIN wire :
    (SameBackend(i, j) /\ wire[i].ticket # wire[j].ticket) => Spaced(i, j)

\* what the gate does give one caller: the requests issued on passing it are
\* REQUEST_DELAY apart
GatedSequentialSpacing ==
  \A i, j \in DOMAIN wire :
    (SameBackend(i, j) /\ ThroughGate(i) /\ ThroughGate(j)) => Spaced(i, j)

\* C16: callers in flight together: any two requests to one backend, each
\* issued by a call on passing the gate, are at least REQUEST_DELAY apart and
\* are issued in the order in which their calls entered the gate.
C16_ConcurrentSerialized ==
  \A i, j \in DOMAIN wire :
    (SameBackend(i, j) /\ ThroughGate(i) /\ ThroughGate(j)) =>
      (Spaced(i, j) /\ wire[i].ticket < wire[j].ticket)

\* C17: every request issued to a judge has passed that judge's gate exactly
\* once, the catalog's problemset.problems fetch and every request of a
\* CodeChef getRecentSubmissions call included.
C17_EveryRequestGated ==
  \A i \in DOMAIN wire : wire[i].passes = 1

\* --------------------------------------------------------------------- /link

\* the judge of platform p knows an account by this name
KnownOn(p, username) ==
  IF p = "codeforces" THEN cfLookup(username) # {} ELSE username \in CCAccounts

\* C18: every session /link puts in the store is for a username the judge
\* knows (validateUser was true) and for which the duplicate check of that
\* /link found no other user of the guild holding it as a linked account of
\* that platform; a /link for which either check fails stores nothing.
C18_LinkAfterChecks ==
  [][ \A r \in pending' \ pending :
        /\ KnownOn(r.platform, r.username)
        /\ ~isAccountLinkedByOther(linked, r.guild_id, r.platform, r.username,
                                   r.discord_user_id)
    ]_vars

\* a user holds a linked account and, later, another user has been given a
\* session for the same name on the other platform
C18_Witness ==
  \E r \in pending, a \in linked :
    /\ r.discord_user_id # a.discord_user_id
    /\ r.guild_id = a.guild_id
    /\ r.username = a.username
    /\ r.platform # a.platform
    /\ r.id = MaxLinks

\* C19: whatever /link and /verify the users of a guild have run, no two
\* users hold the same (platform, username) as a linked account of the guild.
C19_OneHolderPerAccount ==
  \A a, b \in linked :
    (a.guild_id = b.guild_id /\ a.platform = b.platform /\ a.username = b.username)
      => a.discord_user_id = b.discord_user_id

\* ------------------------------------------------------------------ catalog

\* this step is the OK response of the fetch in flight
FetchSucceeds ==
  pick.pc = "fetching" /\ pick'.pc = "done" /\ pick'.outcome = "fetched"

\* this step is a call of getRandomCodeforcesProblem
PickCalled == pick.pc # "fetching" /\ pick' # pick

\* C20: the cache is stamped with the instant t of the successful fetch that
\* filled it and by nothing else; a call made before t + CF_CACHE_DURATION
\* returns the cached list and issues no request; a call made at
\* t + CF_CACHE_DURATION or later issues a new problemset.problems request.
C20_CacheLifetime ==
  [][ /\ FetchSucceeds =>
           (cfCacheTimestamp' = <<now>> /\ cfProblemsCache' = <<pick'.served>>)
      /\ ~FetchSucceeds => UNCHANGED <<cfProblemsCache, cfCacheTimestamp>>
      /\ (PickCalled /\ cfCacheTimestamp # <<>>) =>
           IF now < cfCacheTimestamp[1] + CF_CACHE_DURATION
             THEN /\ pick'.pc = "done"
                  /\ pick'.outcome = "cache"
                  /\ pick'.served = cfProblemsCache[1]
                  /\ wire' = wire
             ELSE /\ pick'.pc = "fetching"
                  /\ Len(wire') = Len(wire) + 1
                  /\ wire'[Len(wire')].backend = "codeforces"
                  /\ wire'[Len(wire')].at = now
    ]_vars

\* after a successful fetch a call was served by the cache, and the call made
\* exactly CF_CACHE_DURATION after the fetch has issued a new request
C20_Witness ==
  /\ pick.pc = "fetching"
  /\ pick.hit
  /\ cfCacheTimestamp # <<>>
  /\ pick.at = cfCacheTimestamp[1] + CF_CACHE_DURATION

\* this step is the failure of the fetch in flight
FetchFails ==
  pick.pc = "fetching" /\ pick'.pc = "done" /\ pick'.outcome # "fetched"

\* C21: when the fetch in flight fails and a cache exists, the call returns
\* the cached list and cache and stamp stay as they were, so the cache is
\* still not valid and the next call fetches again; when no cache exists the
\* call throws and there is still no cache.
C21_FetchFailure ==
  [][ FetchFails =>
        /\ UNCHANGED <<cfProblemsCache, cfCacheTimestamp>>
        /\ ~cacheValid(cfProblemsCache', cfCacheTimestamp', now')
        /\ IF cfProblemsCache # <<>>
             THEN /\ pick'.outcome = "stale"
                  /\ pick'.served = cfProblemsCache[1]
             ELSE /\ pick'.outcome = "failed"
                  /\ pick'.threw
                  /\ cfProblemsCache' = <<>>
                  /\ cfCacheTimestamp' = <<>>
    ]_vars

\* a fetch made because the cache had run out has failed and the call was
\* served the cache that had served an earlier call
C21_Witness ==
  /\ pick.pc = "done"
  /\ pick.outcome = "stale"
  /\ pick.hit
  /\ pick.served = cfProblemsCache[1]
  /\ pick.served # <<>>
  /\ now - cfCacheTimestamp[1] >= CF_CACHE_DURATION
\* C22: every session created by /link has expiresAt > startedAt, and
\* expiresAt = startedAt + the configured window (10 minutes when
\* VERIFICATION_TIMEOUT is unset), whatever the window is configured to.
C22_WindowAfterStart ==
  \A r \in pending :
    /\ r.expires_at > r.started_at
    /\ r.expires_at = r.started_at + VERIFICATION_TIMEOUT * MsPerMinute
    /\ (env = <<>> => r.expires_at = r.started_at + 10 * MsPerMinute)

\* the judge said in so many words that it has no such user
ReportedMissing(in) ==
  IF in.platform = "codeforces"
    THEN in.reply.apiStatus = "FAILED" /\ in.reply.comment = cfNoSuchUser(in.username)
    ELSE in.reply.kind = "http" /\ in.reply.status = 404

\* the judge answered the request with success
Succeeded(in) ==
  /\ in.reply.kind = "http"
  /\ in.reply.status = 200
  /\ in.platform = "codeforces" => in.reply.apiStatus = "OK"

\* C23: on both backends validateUser returns false only when the backend
\* reported that the user does not exist; a network failure, a timeout or
\* any other non-success response is an error, never "not found".
C23_NotFoundOnlyWhenReported ==
  (mPc = "done" /\ mIn.op = "validateUser") =>
    /\ (~mOut.result.threw /\ ~mOut.result.value) => ReportedMissing(mIn)
    /\ (~Succeeded(mIn) /\ ~ReportedMissing(mIn)) => mOut.result.threw

\* the sessions a /verify invocation has selected: those still to process,
\* the one in hand and those it has a result for
Taken(ctx, res) ==
  { ctx.todo[i] : i \in DOMAIN ctx.todo } \cup { ctx.cur[i] : i \in DOMAIN ctx.cur }
    \cup { res[i].row : i \in DOMAIN res }

\* C24: a /verify with a platform option selects exactly the caller's pending
\* sessions of that platform, and one without the option every pending
\* session of (userId, guildId); the selection stays the same until the
\* reply, and no step of /verify removes or changes a session outside it,
\* expired or not.
C24_PlatformFilter ==
  [][ /\ (vPc = "idle" /\ vPc' # "idle") =>
           LET rows == { r \in pending : r.discord_user_id = vCtx'.user
                                          /\ r.guild_id = vCtx'.guild }
           IN Taken(vCtx', results') =
                IF vFilter' = NULL THEN rows
                ELSE { r \in rows : r.platform = vFilter' }
      /\ (VerifyStep /\ vPc # "idle" /\ vPc' # "idle") =>
           Taken(vCtx', results') = Taken(vCtx, results)
      /\ VerifyStep =>
           \A r \in pending :
             r \notin (IF vPc = "idle" THEN Taken(vCtx', results')
                       ELSE Taken(vCtx, results)) => r \in pending'
    ]_vars

\* a /verify with a platform option has deleted the expired session of that
\* platform, and the caller's expired session of the other platform is still
\* stored
C24_Witness ==
  /\ vPc = "reply"
  /\ vFilter \in Platforms
  /\ Len(results) = 1
  /\ results[1].platform = vFilter
  /\ IsExpiredEntry(results[1])
  /\ results[1].row \notin pending
  /\ \E r \in pending :
       /\ r.discord_user_id = vCtx.user
       /\ r.guild_id = vCtx.guild
       /\ r.platform # vFilter
       /\ isExpired(r.expires_at, now)

\* the step is the delete of a finalize whose check verified and whose save
\* has stored the account
RemovedByFinalize(r) ==
  /\ VerifyStep
  /\ vPc = "delete"
  /\ vPc' = "roles"
  /\ r = vCtx.cur[1]
  /\ vCtx.verified
  /\ CurAccount \in linked

RemovedByExpiry(r) ==
  /\ VerifyStep
  /\ vPc = "expired"
  /\ r = vCtx.cur[1]
  /\ isExpired(r.expires_at, now)

RemovedBySweep(r) ==
  /\ ~VerifyStep
  /\ nextId' = nextId
  /\ cleanupJob.timer = "running"
  /\ r.expires_at < now
  /\ pending' = cleanupExpiredVerifications(pending, now)

RemovedByLink(r) ==
  /\ ~VerifyStep
  /\ nextId' = nextId + 1
  /\ \E q \in pending' \ pending : q.id = nextId /\ SameKey(q, r)

\* C25: a pending session leaves the store only in the delete of a finalize
\* that has saved the account, in the expiry branch of /verify, in a run of
\* the cleanup job, or when a new /link of the same (user, guild, platform)
\* supersedes it; a session that stays keeps every field, and a new session
\* gets an id no stored session has.
C25_RemovalPaths ==
  [][ /\ \A r \in pending \ pending' :
            \/ RemovedByFinalize(r)
            \/ RemovedByExpiry(r)
            \/ RemovedBySweep(r)
            \/ RemovedByLink(r)
      /\ \A r \in pending, q \in pending' : r.id = q.id => r = q
    ]_vars

\* two /link have stored sessions and none is left: a finalize has just
\* deleted the session it verified
C25_Witness ==
  /\ vPc = "roles"
  /\ ~CurPending
  /\ CurAccount \in linked
  /\ nextId = 3
  /\ Cardinality(pending) = 0

\* the /link invocation in fails before it stores the session: the judge
\* could not be asked, the username is not found, another user holds the
\* account, or the catalog gives no problem
LinkFailed(in) ==
  \/ ~in.net
  \/ ~KnownOn(in.platform, in.username)
  \/ isAccountLinkedByOther(linked, in.guild, in.platform, in.username, in.user)
  \/ in.catalog # "picked"

\* C26: a /link that fails before persistence creates no session and leaves
\* the pending sessions, the caller's session of that platform among them,
\* as they were.
C26_FailedLinkNoEffect ==
  [][ (mPc = "following" /\ mIn' # mIn /\ LinkFailed(mIn')) =>
        (pending' = pending /\ nextId' = nextId)
    ]_vars

\* a /link codeforces whose catalog fetch failed has just been made by a
\* user whose session for Codeforces, stored before, is still there
C26_Witness ==
  /\ mPc = "following"
  /\ mIn.platform = "codeforces"
  /\ mIn.net
  /\ KnownOn(mIn.platform, mIn.username)
  /\ ~isAccountLinkedByOther(linked, mIn.guild, mIn.platform, mIn.username, mIn.user)
  /\ mIn.catalog = "fetch failed"
  /\ nextId = 2
  /\ \E r \in pending :
       /\ r.id = 1
       /\ r.discord_user_id = mIn.user
       /\ r.guild_id = mIn.guild
       /\ r.platform = mIn.platform

\* the rating lies in the band [800, 1500]
InBand(q) == q.rating >= 800 /\ q.rating <= 1500

\* C27: every problem of the catalog cache has a rating in [800, 1500]; a
\* call of getRandomCodeforcesProblem that returns gives a problem built from
\* a member of the list it was served, which is the list in the cache, so
\* the problem it hands to /link is in the band too.
C27_CatalogInBand ==
  /\ cfProblemsCache # <<>> =>
        \A i \in DOMAIN cfProblemsCache[1] : InBand(cfProblemsCache[1][i])
  /\ (pick.pc = "done" /\ ~pick.threw) =>
        /\ pick.problem # <<>>
        /\ pick.served = cfProblemsCache[1]
        /\ InBand(pick.problem[1])
        /\ \E i \in DOMAIN pick.served :
              /\ pick.problem[1].contestId = pick.served[i].contestId
              /\ pick.problem[1].index = pick.served[i].index
              /\ pick.problem[1].rating = pick.served[i].rating
              /\ pick.problem[1].id = cfProblemId(pick.served[i])
  /\ (pick.pc = "done" /\ pick.threw) => pick.problem = <<>>

\* the cache holds the two rated problems of a reply that had an unrated
\* one between them, and a call served from it has drawn the second
C27_Witness ==
  /\ pick.pc = "done"
  /\ pick.outcome = "cache"
  /\ Len(pick.served) = 2
  /\ pick.problem # <<>>
  /\ pick.problem[1].contestId = 1002
  /\ pick.problem[1].rating = 800

\* C28: every Codeforces session stores as its username the handle as
\* Codeforces spells it, whatever spelling was typed and whether or not
\* getUserInfo succeeded in /link.
C28_CanonicalHandle ==
  \A r \in pending : r.platform = "codeforces" => r.username \in CFAccounts

\* C29: an adapter call whose request ends in a network error or a timeout
\* has issued that one request and no other, and ends in an error for its
\* caller.
C29_NoRetryOnFailure ==
  (mPc = "done" /\ mIn.reply.kind \in { "timeout", "network" }) =>
    (mOut.requests = 1 /\ mOut.result.threw)

RankMissing ==
  /\ vPc \in { "save", "delete", "roles" }
  /\ vCtx.cur[1].platform = "codeforces"
  /\ vCtx.rank = NULL

\* C31: a failed rank fetch after a verified Codeforces check pushes no
\* result and changes no table: the finalize follows with a null rank.  In
\* that finalize the save stores the account with rank null, the delete
\* removes the session, and the role callback's return pushes the success
\* entry for the session, the account being stored and the session gone.
C31_RankFailureStillCompletes ==
  [][ /\ (VerifyStep /\ vPc = "rank") =>
            /\ vPc' = "save"
            /\ vCtx'.cur = vCtx.cur
            /\ vCtx'.verified
            /\ results' = results
            /\ pending' = pending
            /\ linked' = linked
      /\ (VerifyStep /\ RankMissing /\ vPc = "save" /\ vPc' = "delete") =>
            /\ linked' = createLinkedAccount(linked, CurAccount)
            /\ CurAccount.rank = NULL
            /\ RankMissing'
      /\ (VerifyStep /\ RankMissing /\ vPc = "delete" /\ vPc' = "roles") =>
            /\ ~CurPending'
            /\ RankMissing'
      /\ (VerifyStep /\ RankMissing /\ vPc = "roles" /\ Pushes /\ Pushed.success) =>
            /\ Pushed = Entry(vCtx.cur[1], TRUE, MsgVerified, <<>>)
            /\ CurAccount \in linked'
            /\ ~CurPending
    ]_vars

\* a /verify is about to reply with the success of a Codeforces session
\* whose account was stored with a null rank, the session being deleted
C31_Witness ==
  /\ vPc = "reply"
  /\ \E i \in 1..Len(results) :
       /\ results[i].success
       /\ results[i].platform = "codeforces"
       /\ results[i].row \notin pending
       /\ \E x \in linked :
            /\ x.discord_user_id = vCtx.user
            /\ x.platform = "codeforces"
            /\ x.username = results[i].username
            /\ x.rank = NULL

\* C32: for one session, whatever the interleaving of the user's /verify
\* invocations, createLinkedAccount stores its account at most once and the
\* role callback is called for it at most once.
C32_FinalizeAtMostOnce ==
  \A id \in DOMAIN finalizeCalls :
    /\ finalizeCalls[id].saves <= 1
    /\ finalizeCalls[id].roles <= 1

\* the step is a createLinkedAccount that stored the account of the session
\* in hand
Creates == VerifyStep /\ vPc = "save" /\ vPc' = "delete"

\* C33: whenever createLinkedAccount stores the account of a session, at that
\* moment the session has not passed its expires_at and is still in
\* pending_verifications (neither swept nor superseded by a new /link).
C33_NoLateCreation ==
  [][ Creates =>
        /\ ~isExpired(vCtx.cur[1].expires_at, now)
        /\ CurPending
    ]_vars

\* ------------------------------------------------------- the end of a window

\* getRemainingTime reports the window of a session as over
SaysExpired(expiresAt, t) == getRemainingTime(expiresAt, t).formatted = <<"Expired">>

\* C34: isExpired and getRemainingTime agree at every instant: for every
\* session in the store, isExpired is false exactly when getRemainingTime
\* does not say "Expired"; and a result entry that carries a remaining time,
\* pushed at the instant at which the session passed the expiry check, does
\* not carry "Expired".
C34_ExpiryAgrees ==
  [][ /\ \A r \in pending :
           ~isExpired(r.expires_at, now) <=> ~SaysExpired(r.expires_at, now)
      /\ (VerifyStep /\ Pushes /\ Pushed.timeRemaining # <<>>
             /\ vCtx.checkedAt = now) =>
           Pushed.timeRemaining # <<"Expired">>
    ]_vars

\* --------------------------------------------------------------- problem ids

\* an index of the usual shape: a letter, then digits
UsualIndex(index) ==
  /\ Len(index) >= 1
  /\ IsLetter(index[1])
  /\ \A i \in 2..Len(index) : IsDigit(index[i])

\* the id getRandomCodeforcesProblem builds for problem q parses back into
\* q's contestId and upper-cased index
RoundTrip(q) ==
  LET r == parseCodeforcesProblemId(randomProblem(<<q>>, 0).id) IN
  /\ r.ok
  /\ r.contestId = q.contestId
  /\ r.index = toUpperCase(q.index)

\* the id of a Codeforces session does not parse
BadId(row) == row.platform = "codeforces" /\ ~parseCodeforcesProblemId(row.problem_id).ok

\* a session whose id does not parse never reaches the submission check or
\* the finalize; a /verify that selects such a session before its expiry
\* pushes the "failed to check" entry for it, and that step changes neither
\* table
BadIdFails ==
  /\ vPc' \in { "check", "checked", "rank", "save", "delete", "roles" } =>
        ~BadId(vCtx'.cur[1])
  /\ \A r \in pending :
        (/\ VerifyStep /\ vPc = "idle" /\ r \in Taken(vCtx', results')
         /\ BadId(r) /\ ~isExpired(r.expires_at, now)) =>
          /\ Pushes
          /\ Pushed = Entry(r, FALSE, MsgFailedCheck, <<>>)
          /\ pending' = pending
          /\ linked' = linked

\* C35: the id of every problem the catalog returns parses back
\* into the problem's contestId and upper-cased index, and an id that does
\* not parse gives a failure entry and leaves the session untouched.
C35_EveryIdParses ==
  [][ RoundTrip(mIn) /\ BadIdFails ]_vars

\* what holds instead of the first half: the id parses back into the
\* problem's contestId and upper-cased index exactly when the problem's index
\* is a letter followed by digits
UsualIdParses ==
  [][ /\ UsualIndex(mIn.index) <=> RoundTrip(mIn)
      /\ BadIdFails
    ]_vars

\* ------------------------------------------------------ the judge's history

\* positions in the user's history of a compilation error on the assigned
\* problem stamped at or after startedAt
HistoryQualifying ==
  { i \in 1..Len(mIn.history) :
      /\ mIn.history[i].contestId = mIn.contestId
      /\ SameLetters(mIn.history[i].problemIndex, mIn.problemIndex)
      /\ mIn.history[i].verdict = CE_VERDICT
      /\ mIn.history[i].creationTimeSeconds * MsPerSecond >= mIn.startedAt }

\* C36: when the user's history holds a compilation error on the assigned
\* problem stamped at or after startedAt and the request to the judge does
\* not fail, the Codeforces check verifies, however many submissions the user
\* has made since.
C36_VerifiedWhateverFollows ==
  (mPc = "done" /\ ~mOut.threw /\ HistoryQualifying # {}) => mOut.verified

\* ------------------------------------------------------ the timestamp floor

\* the submission counts exactly when its stamp, in seconds, is at least
\* startedAt truncated to whole seconds
WholeSecondFloor ==
  mPc = "done" =>
    (mOut.verified <=>
       creationTimeSeconds(mIn.madeAt) >= mIn.startedAt \div MsPerSecond)

\* C37: the submission counts exactly when its stamp in seconds is at least
\* startedAt truncated to whole seconds, and a submission made before the
\* instant startedAt is never accepted.
C37_NothingBeforeStart ==
  /\ WholeSecondFloor
  /\ (mPc = "done" /\ mOut.verified) => mIn.madeAt >= mIn.startedAt

====
